---- MODULE Spec2Model ----
(***************************************************************************)
(* Anchor-based attendance table extraction (hajri-ocr/table_extractor.py). *)
(*                                                                         *)
(* A text is a sequence of one-character strings, so that the regular      *)
(* expressions, the code normalisation and the numeric parsing are         *)
(* computed character by character as the Python code computes them.       *)
(* Pixel coordinates are integers; a percentage is held in tenths of a     *)
(* percent (71.2 % is 712).  None is the value of an unset dict entry.     *)
(***************************************************************************)
EXTENDS Integers, Sequences, FiniteSets, TLC

VARIABLES
    pc,                 \* position in extract_table_data, or the method called
    ocr_lines,          \* result[0] of the OCR engine: (box, text, conf) lines
    tokens,             \* _tokenize_ocr_lines: the token dicts
    image_width,        \* _tokenize_ocr_lines: max_x
    left_tokens,        \* _split_left_right: left
    right_tokens,       \* _split_left_right: right
    anchors,            \* _detect_anchors
    attendance_fields,  \* _detect_attendance_fields
    percentage_fields,  \* _detect_percentage_fields
    entries_matched,    \* entries as returned by _match_fields_to_anchors
    course_dict,        \* _build_course_dictionary: function from code to name
    entries_named,      \* entries as returned by _inject_course_names
    entries_validated,  \* entries as returned by _validate_entries
    entries_unique,     \* entries as returned by _deduplicate_anchors
    final,              \* the list of AttendanceEntry returned
    raw_code,           \* argument of a direct _normalize_course_code call
    normalized,         \* its return value
    debug_mode,         \* self.debug_mode
    debug_info,         \* self.debug_info: function from key to value
    returned,           \* what the calls made so far returned, by OCR result
    zone_x_center,      \* argument of a direct _get_x_ratio call
    in_zones            \* the zones for which _in_zone returns True

vars == <<pc, ocr_lines, tokens, image_width, left_tokens, right_tokens, anchors,
          attendance_fields, percentage_fields, entries_matched, course_dict,
          entries_named, entries_validated, entries_unique, final, raw_code,
          normalized, debug_mode, debug_info, returned, zone_x_center, in_zones>>

-----------------------------------------------------------------------------
(* Characters and Python's str helpers                                      *)

\* ARABIC-INDIC DIGIT TWO, a decimal digit outside ASCII: \d matches it,
\* str.isdigit() is True for it and int() reads it as 2, while [A-Z0-9] does
\* not contain it.
ARABIC_TWO == "U+0662"

\* The characters in code point order (space, %, ., /, digits, A-Z, a-z,
\* U+0662).
Alphabet ==
    <<" ", "%", ".", "/",
      "0", "1", "2", "3", "4", "5", "6", "7", "8", "9",
      "A", "B", "C", "D", "E", "F", "G", "H", "I", "J", "K", "L", "M",
      "N", "O", "P", "Q", "R", "S", "T", "U", "V", "W", "X", "Y", "Z",
      "a", "b", "c", "d", "e", "f", "g", "h", "i", "j", "k", "l", "m",
      "n", "o", "p", "q", "r", "s", "t", "u", "v", "w", "x", "y", "z",
      ARABIC_TWO>>

Ord(c) == CHOOSE i \in 1..Len(Alphabet) : Alphabet[i] = c

\* The character classes [0-9], \d (and str.isdigit), [A-Z], [a-z], \s and
\* [A-Z0-9].
AsciiDigitChars == {Alphabet[i] : i \in Ord("0")..Ord("9")}
DigitChars == AsciiDigitChars \cup {ARABIC_TWO}
UpperChars == {Alphabet[i] : i \in Ord("A")..Ord("Z")}
LowerChars == {Alphabet[i] : i \in Ord("a")..Ord("z")}
SpaceChars == {" "}
AlnumUpperChars == UpperChars \cup AsciiDigitChars

IsDigit(c) == c \in DigitChars
IsUpper(c) == c \in UpperChars
IsLower(c) == c \in LowerChars
IsSpace(c) == c \in SpaceChars

DigitVal(c) == IF c = ARABIC_TWO THEN 2 ELSE Ord(c) - Ord("0")

\* str.upper()
UpperCh(c) == IF IsLower(c) THEN Alphabet[Ord(c) - Ord("a") + Ord("A")] ELSE c
Upper(s) == [i \in 1..Len(s) |-> UpperCh(s[i])]

\* The characters of s that are in Keep, in order.
RECURSIVE Filter(_, _)
Filter(s, Keep) ==
    IF s = <<>> THEN <<>>
    ELSE (IF Head(s) \in Keep THEN <<Head(s)>> ELSE <<>>) \o Filter(Tail(s), Keep)

\* s[:n]
Take(s, n) == SubSeq(s, 1, IF n < Len(s) THEN n ELSE Len(s))

\* str.strip() (of spaces)
RECURSIVE LStrip(_)
LStrip(s) == IF s # <<>> /\ IsSpace(Head(s)) THEN LStrip(Tail(s)) ELSE s
RECURSIVE RStrip(_)
RStrip(s) ==
    IF s # <<>> /\ IsSpace(s[Len(s)]) THEN RStrip(SubSeq(s, 1, Len(s) - 1)) ELSE s
Strip(s) == RStrip(LStrip(s))

\* needle in s
Contains(s, needle) ==
    \E i \in 1..(Len(s) - Len(needle) + 1) :
        SubSeq(s, i, i + Len(needle) - 1) = needle

\* Python's < on str: lexicographic by code point.
RECURSIVE StrLess(_, _)
StrLess(a, b) ==
    IF b = <<>> THEN FALSE
    ELSE IF a = <<>> THEN TRUE
    ELSE IF Head(a) # Head(b) THEN Ord(Head(a)) < Ord(Head(b))
    ELSE StrLess(Tail(a), Tail(b))

\* The end of the run of characters of class P that starts at s[i]
\* (i - 1 when s[i] is not in P).
RECURSIVE RunEnd(_, _, _)
RunEnd(s, i, P) ==
    IF i <= Len(s) /\ s[i] \in P THEN RunEnd(s, i + 1, P) ELSE i - 1

\* int() of a digit string
RECURSIVE ParseInt(_)
ParseInt(s) ==
    IF s = <<>> THEN 0
    ELSE 10 * ParseInt(SubSeq(s, 1, Len(s) - 1)) + DigitVal(s[Len(s)])

Min(S) == CHOOSE x \in S : \A y \in S : x <= y
Abs(x) == IF x < 0 THEN 0 - x ELSE x

-----------------------------------------------------------------------------
(* _normalize_course_code                                                   *)

\* raw_code.split('/')[0]
LeftOfSlash(s) ==
    LET cut == {i \in 1..Len(s) : s[i] = "/"}
    IN  IF cut = {} THEN s ELSE SubSeq(s, 1, Min(cut) - 1)

\* mapped = {'O': '0', 'D': '0', 'Q': '0', 'I': '1', 'L': '1'}; mapped.get(ch, ch)
ConfusionFix(c) ==
    IF c \in {"O", "D", "Q"} THEN "0"
    ELSE IF c \in {"I", "L"} THEN "1"
    ELSE c

\* re.match(r'([A-Z]{2,5})([A-Z0-9]*)', cleaned): the length of group 1, the
\* greedy run of 2 to 5 leading letters, or 0 when the match fails.
LettersLen(cleaned) ==
    LET run == RunEnd(cleaned, 1, UpperChars)
    IN  IF run < 2 THEN 0 ELSE IF run > 5 THEN 5 ELSE run

NormalizeCourseCode(raw) ==
    IF raw = <<>> THEN <<>>
    ELSE
        LET left    == LeftOfSlash(raw)
            cleaned == Filter(Upper(left), AlnumUpperChars)
        IN  IF cleaned = <<>> THEN <<>>
            ELSE IF LettersLen(cleaned) = 0 THEN Take(cleaned, 7)
            ELSE
                LET letters     == SubSeq(cleaned, 1, LettersLen(cleaned))
                    tail        == SubSeq(cleaned, LettersLen(cleaned) + 1, Len(cleaned))
                    tail_fixed  == [i \in 1..Len(tail) |->
                                       IF IsDigit(tail[i]) THEN tail[i]
                                       ELSE ConfusionFix(tail[i])]
                    digits_only == Filter(tail_fixed, DigitChars)
                    digit_part  == IF digits_only # <<>>
                                   THEN Take(digits_only \o <<"0", "0", "0">>, 3)
                                   ELSE <<"0", "0", "0">>
                IN  Strip(Take(letters, 4) \o digit_part)

-----------------------------------------------------------------------------
(* Configuration set by TableExtractor.__init__                             *)

None == -1          \* an unset value (every set value of the model is >= 0)

\* Column zones, in hundredths of the image width.
COURSE_CODE_ZONE == <<0, 35>>
CLASS_TYPE_ZONE  == <<35, 50>>
ATTENDANCE_ZONE  == <<50, 75>>
PERCENTAGE_ZONE  == <<75, 100>>

y_tolerance == 20
region_split_threshold == 52    \* hundredths of the image width

T_LECT == <<"L", "E", "C", "T">>
T_LAB  == <<"L", "A", "B">>
UNKNOWN == <<"U", "N", "K", "N", "O", "W", "N">>

-----------------------------------------------------------------------------
(* The regular expressions                                                  *)

\* [A-Z]{3,4}\d{3} matched at position i: the length matched (the greedy 4
\* letters first, then 3), or 0.
CodeMatchLen(s, i) ==
    LET letters == RunEnd(s, i, UpperChars) - i + 1
        ThreeDigits(j) == j + 2 <= Len(s) /\ \A k \in j..(j + 2) : IsDigit(s[k])
    IN  IF letters >= 4 /\ ThreeDigits(i + 4) THEN 7
        ELSE IF letters >= 3 /\ ThreeDigits(i + 3) THEN 6
        ELSE 0

\* re.search(r'[A-Z]{3,4}\d{3}', s).group(0), or <<>> when there is no match.
CourseCodeSearch(s) ==
    LET starts == {i \in 1..Len(s) : CodeMatchLen(s, i) > 0}
    IN  IF starts = {} THEN <<>>
        ELSE SubSeq(s, Min(starts), Min(starts) + CodeMatchLen(s, Min(starts)) - 1)

\* (\d+)\s*/\s*(\d+) matched at position i: <<end of group 1, start of group 2,
\* end of group 2>>, or <<>>.
AttendanceMatchAt(s, i) ==
    LET e1    == RunEnd(s, i, DigitChars)
        slash == RunEnd(s, e1 + 1, SpaceChars) + 1
        b2    == RunEnd(s, slash + 1, SpaceChars) + 1
        e2    == RunEnd(s, b2, DigitChars)
    IN  IF e1 >= i /\ slash <= Len(s) /\ s[slash] = "/" /\ e2 >= b2
        THEN <<e1, b2, e2>> ELSE <<>>

\* re.search(r'(\d+)\s*/\s*(\d+)', s): <<group 1, group 2>>, or <<>>.
AttendanceSearch(s) ==
    LET starts == {i \in 1..Len(s) : AttendanceMatchAt(s, i) # <<>>}
    IN  IF starts = {} THEN <<>>
        ELSE LET i == Min(starts)
                 m == AttendanceMatchAt(s, i)
             IN  <<SubSeq(s, i, m[1]), SubSeq(s, m[2], m[3])>>

\* (\d+(?:\.\d+)?)\s*% matched at position i: <<end of the integer part, end of
\* group 1>>, or <<>>.
PercentageMatchAt(s, i) ==
    LET e1   == RunEnd(s, i, DigitChars)
        frac == IF e1 + 1 <= Len(s) /\ s[e1 + 1] = "." THEN RunEnd(s, e1 + 2, DigitChars)
                ELSE e1
        e    == IF frac >= e1 + 2 THEN frac ELSE e1
        pct  == RunEnd(s, e + 1, SpaceChars) + 1
    IN  IF e1 >= i /\ pct <= Len(s) /\ s[pct] = "%" THEN <<e1, e>> ELSE <<>>

\* float(match.group(1)) in tenths of a percent, for a group with at most one
\* fractional digit; None when the pattern does not match.
PercentageSearch(s) ==
    LET starts == {i \in 1..Len(s) : PercentageMatchAt(s, i) # <<>>}
    IN  IF starts = {} THEN None
        ELSE LET i == Min(starts)
                 m == PercentageMatchAt(s, i)
             IN  10 * ParseInt(SubSeq(s, i, m[1]))
                 + (IF m[2] > m[1] THEN DigitVal(s[m[1] + 2]) ELSE 0)

\* str.replace(old, new) of single characters
Replace(s, old, new) == [i \in 1..Len(s) |-> IF s[i] = old THEN new ELSE s[i]]

-----------------------------------------------------------------------------
(* _tokenize_ocr_lines                                                      *)

\* sum(x_coords) / 4.0 (the boxes of the model have integral centres)
Sum4(q) == q[1] + q[2] + q[3] + q[4]
Max2(a, b) == IF a > b THEN a ELSE b

Token(line) ==
    [text     |-> Strip(line.text),
     conf     |-> line.conf,
     x_center |-> Sum4([i \in 1..4 |-> line.box[i][1]]) \div 4,
     y_center |-> Sum4([i \in 1..4 |-> line.box[i][2]]) \div 4,
     box      |-> line.box]

TokenizeOcrLines(lines) == [i \in 1..Len(lines) |-> Token(lines[i])]

RECURSIVE MaxX(_)
MaxX(lines) ==
    IF lines = <<>> THEN 0
    ELSE LET box == lines[Len(lines)].box
         IN  Max2(MaxX(SubSeq(lines, 1, Len(lines) - 1)),
                  Max2(Max2(box[1][1], box[2][1]), Max2(box[3][1], box[4][1])))

-----------------------------------------------------------------------------
(* _split_left_right                                                        *)

\* sorted() of a list of numbers
RECURSIVE Insert(_, _)
Insert(x, s) ==
    IF s = <<>> THEN <<x>>
    ELSE IF x < Head(s) THEN <<x>> \o s
    ELSE <<Head(s)>> \o Insert(x, Tail(s))
RECURSIVE Sorted(_)
Sorted(s) == IF s = <<>> THEN <<>> ELSE Insert(Head(s), Sorted(Tail(s)))

RECURSIVE TokensLeftOf(_, _)
TokensLeftOf(toks, threshold100) ==
    IF toks = <<>> THEN <<>>
    ELSE (IF 100 * Head(toks).x_center < threshold100 THEN <<Head(toks)>> ELSE <<>>)
         \o TokensLeftOf(Tail(toks), threshold100)
RECURSIVE TokensRightOf(_, _)
TokensRightOf(toks, threshold100) ==
    IF toks = <<>> THEN <<>>
    ELSE (IF 100 * Head(toks).x_center >= threshold100 THEN <<Head(toks)>> ELSE <<>>)
         \o TokensRightOf(Tail(toks), threshold100)

\* SplitThreshold taking the lower of the two middle elements as the median.
SplitThresholdLowerMedian(toks, width) ==
    LET threshold == width * region_split_threshold
    IN  IF (TokensLeftOf(toks, threshold) = <<>> \/ TokensRightOf(toks, threshold) = <<>>)
           /\ toks # <<>>
        THEN LET xs == Sorted([i \in 1..Len(toks) |-> toks[i].x_center])
             IN  100 * xs[((Len(xs) - 1) \div 2) + 1]
        ELSE threshold

\* The split point, times 100: image_width * 0.52, or the median x_center when
\* one side would be empty.
SplitThreshold(toks, width) ==
    LET threshold == width * region_split_threshold
    IN  IF (TokensLeftOf(toks, threshold) = <<>> \/ TokensRightOf(toks, threshold) = <<>>)
           /\ toks # <<>>
        THEN LET xs == Sorted([i \in 1..Len(toks) |-> toks[i].x_center])
             IN  100 * xs[(Len(xs) \div 2) + 1]
        ELSE threshold

\* SplitLeft returning the whole table, the dictionary included.
SplitLeftWholeTable(toks, width) == toks

SplitLeft(toks, width)  == TokensLeftOf(toks, SplitThreshold(toks, width))
SplitRight(toks, width) == TokensRightOf(toks, SplitThreshold(toks, width))

-----------------------------------------------------------------------------
(* _get_x_ratio, _in_zone                                                   *)

\* x_center / image_width as the fraction <<numerator, denominator>>
GetXRatio(x_center, width) == IF width > 0 THEN <<x_center, width>> ELSE <<0, 1>>

\* InZone with the upper bound included.
InZoneClosed(x_ratio, zone) ==
    /\ zone[1] * x_ratio[2] <= 100 * x_ratio[1]
    /\ 100 * x_ratio[1] <= zone[2] * x_ratio[2]

\* zone[0] <= x_ratio < zone[1]
InZone(x_ratio, zone) ==
    /\ zone[1] * x_ratio[2] <= 100 * x_ratio[1]
    /\ 100 * x_ratio[1] < zone[2] * x_ratio[2]

\* The four zone attributes of the extractor, by name.
Zones ==
    [CourseCode |-> COURSE_CODE_ZONE, ClassType |-> CLASS_TYPE_ZONE,
     Attendance |-> ATTENDANCE_ZONE, Percentage |-> PERCENTAGE_ZONE]

-----------------------------------------------------------------------------
(* _detect_anchors                                                          *)

\* ClassTypeFrom without the test of the vertical distance.
RECURSIVE ClassTypeFromAnyY(_, _, _)
ClassTypeFromAnyY(left, i, j) ==
    IF j > Len(left) THEN <<>>
    ELSE IF j = i THEN ClassTypeFromAnyY(left, i, j + 1)
    ELSE IF Contains(Upper(left[j].text), T_LECT) THEN T_LECT
    ELSE IF Contains(Upper(left[j].text), T_LAB) THEN T_LAB
    ELSE ClassTypeFromAnyY(left, i, j + 1)

\* ClassTypeFrom testing a text for LAB before LECT.
RECURSIVE ClassTypeFromLabFirst(_, _, _)
ClassTypeFromLabFirst(left, i, j) ==
    IF j > Len(left) THEN <<>>
    ELSE IF j = i THEN ClassTypeFromLabFirst(left, i, j + 1)
    ELSE IF Abs(left[j].y_center - left[i].y_center) > y_tolerance
         THEN ClassTypeFromLabFirst(left, i, j + 1)
    ELSE IF Contains(Upper(left[j].text), T_LAB) THEN T_LAB
    ELSE IF Contains(Upper(left[j].text), T_LECT) THEN T_LECT
    ELSE ClassTypeFromLabFirst(left, i, j + 1)

\* The inner loop: the class type of the first other token, in list order,
\* within y_tolerance of token i whose text contains LECT or LAB; <<>> (for
\* class_type = None) if there is none.
RECURSIVE ClassTypeFrom(_, _, _)
ClassTypeFrom(left, i, j) ==
    IF j > Len(left) THEN <<>>
    ELSE IF j = i THEN ClassTypeFrom(left, i, j + 1)
    ELSE IF Abs(left[j].y_center - left[i].y_center) > y_tolerance
         THEN ClassTypeFrom(left, i, j + 1)
    ELSE IF Contains(Upper(left[j].text), T_LECT) THEN T_LECT
    ELSE IF Contains(Upper(left[j].text), T_LAB) THEN T_LAB
    ELSE ClassTypeFrom(left, i, j + 1)

ClassTypeNear(left, i) == ClassTypeFrom(left, i, 1)

\* Whether token i is a course code candidate in the course code zone.
IsCodeCandidate(left, width, i) ==
    /\ CourseCodeSearch(Upper(left[i].text)) # <<>>
    /\ InZone(GetXRatio(left[i].x_center, width), COURSE_CODE_ZONE)

\* AnchorsFrom storing the text of the token as the course code.
RECURSIVE AnchorsFromRawText(_, _, _)
AnchorsFromRawText(left, width, i) ==
    IF i > Len(left) THEN <<>>
    ELSE (IF IsCodeCandidate(left, width, i) /\ ClassTypeNear(left, i) # <<>>
          THEN <<[course_code |-> left[i].text,
                  class_type  |-> ClassTypeNear(left, i),
                  x_center    |-> left[i].x_center,
                  y_center    |-> left[i].y_center]>>
          ELSE <<>>)
         \o AnchorsFromRawText(left, width, i + 1)

\* AnchorsFrom skipping a token whose key an earlier token of the list gave.
RECURSIVE AnchorsFromSeenKeys(_, _, _)
AnchorsFromSeenKeys(left, width, i) ==
    IF i > Len(left) THEN <<>>
    ELSE (IF /\ IsCodeCandidate(left, width, i) /\ ClassTypeNear(left, i) # <<>>
             /\ ~\E k \in 1..(i - 1) :
                    /\ IsCodeCandidate(left, width, k)
                    /\ ClassTypeNear(left, k) = ClassTypeNear(left, i)
                    /\ NormalizeCourseCode(CourseCodeSearch(Upper(left[k].text)))
                         = NormalizeCourseCode(CourseCodeSearch(Upper(left[i].text)))
          THEN <<[course_code |-> NormalizeCourseCode(CourseCodeSearch(Upper(left[i].text))),
                  class_type  |-> ClassTypeNear(left, i),
                  x_center    |-> left[i].x_center,
                  y_center    |-> left[i].y_center]>>
          ELSE <<>>)
         \o AnchorsFromSeenKeys(left, width, i + 1)

\* The outer loop over the tokens
RECURSIVE AnchorsFrom(_, _, _)
AnchorsFrom(left, width, i) ==
    IF i > Len(left) THEN <<>>
    ELSE (IF IsCodeCandidate(left, width, i) /\ ClassTypeNear(left, i) # <<>>
          THEN <<[course_code |-> NormalizeCourseCode(CourseCodeSearch(Upper(left[i].text))),
                  class_type  |-> ClassTypeNear(left, i),
                  x_center    |-> left[i].x_center,
                  y_center    |-> left[i].y_center]>>
          ELSE <<>>)
         \o AnchorsFrom(left, width, i + 1)

DetectAnchors(left, width) == AnchorsFrom(left, width, 1)

-----------------------------------------------------------------------------
(* _detect_attendance_fields, _detect_percentage_fields                     *)

\* token['text'].upper().replace('O', '0').replace('L', '1').replace('I', '1')
CleanAttendanceText(text) ==
    Replace(Replace(Replace(Upper(text), "O", "0"), "L", "1"), "I", "1")

\* IsAttendanceField without the test of the zone.
IsAttendanceFieldAnyZone(tok, width) ==
    LET m == AttendanceSearch(CleanAttendanceText(tok.text))
    IN  /\ m # <<>>
        /\ ~(ParseInt(m[1]) > 100 \/ ParseInt(m[2]) > 100)

\* Whether the loop of _detect_attendance_fields appends a field for the token.
IsAttendanceField(tok, width) ==
    LET m == AttendanceSearch(CleanAttendanceText(tok.text))
    IN  /\ m # <<>>
        /\ ~(ParseInt(m[1]) > 100 \/ ParseInt(m[2]) > 100)
        /\ InZone(GetXRatio(tok.x_center, width), ATTENDANCE_ZONE)

AttendanceField(tok) ==
    LET m == AttendanceSearch(CleanAttendanceText(tok.text))
    IN  [present  |-> ParseInt(m[1]),
         total    |-> ParseInt(m[2]),
         x_center |-> tok.x_center,
         y_center |-> tok.y_center]

RECURSIVE DetectAttendanceFields(_, _)
DetectAttendanceFields(left, width) ==
    IF left = <<>> THEN <<>>
    ELSE (IF IsAttendanceField(Head(left), width)
          THEN <<AttendanceField(Head(left))>> ELSE <<>>)
         \o DetectAttendanceFields(Tail(left), width)

IsPercentageField(tok, width) ==
    /\ PercentageSearch(tok.text) # None
    /\ ~(PercentageSearch(tok.text) > 1000)
    /\ InZone(GetXRatio(tok.x_center, width), PERCENTAGE_ZONE)

RECURSIVE DetectPercentageFields(_, _)
DetectPercentageFields(left, width) ==
    IF left = <<>> THEN <<>>
    ELSE (IF IsPercentageField(Head(left), width)
          THEN <<[percentage |-> PercentageSearch(Head(left).text),
                  x_center   |-> Head(left).x_center,
                  y_center   |-> Head(left).y_center]>>
          ELSE <<>>)
         \o DetectPercentageFields(Tail(left), width)

-----------------------------------------------------------------------------
(* _match_fields_to_anchors                                                 *)

\* CloserField with the tolerance test written "<=".
CloserFieldInclusive(y_dist, has_best, best_dist) ==
    y_dist <= y_tolerance /\ (~has_best \/ y_dist < best_dist)

\* "if y_dist < self.y_tolerance and y_dist < best_dist": whether a field at
\* distance y_dist replaces the best one found so far (best_dist is infinite
\* while there is none).
CloserField(y_dist, has_best, best_dist) ==
    y_dist < y_tolerance /\ (~has_best \/ y_dist < best_dist)

\* The loop over the fields: the index of best_attendance / best_percentage
\* after fields j.. have been scanned (0: None).
RECURSIVE BestFieldFrom(_, _, _, _)
BestFieldFrom(anchor, fields, j, best) ==
    IF j > Len(fields) THEN best
    ELSE LET y_dist    == Abs(fields[j].y_center - anchor.y_center)
             best_dist == IF best = 0 THEN 0
                          ELSE Abs(fields[best].y_center - anchor.y_center)
         IN  BestFieldFrom(anchor, fields, j + 1,
                 IF CloserField(y_dist, best # 0, best_dist) THEN j ELSE best)

BestField(anchor, fields) == BestFieldFrom(anchor, fields, 1, 0)

MatchEntry(anchor, att_fields, pct_fields) ==
    LET best_attendance == BestField(anchor, att_fields)
        best_percentage == BestField(anchor, pct_fields)
    IN  [course_code |-> anchor.course_code,
         class_type  |-> anchor.class_type,
         present     |-> IF best_attendance # 0 THEN att_fields[best_attendance].present
                         ELSE None,
         total       |-> IF best_attendance # 0 THEN att_fields[best_attendance].total
                         ELSE None,
         percentage  |-> IF best_percentage # 0 THEN pct_fields[best_percentage].percentage
                         ELSE None,
         y_center    |-> anchor.y_center]

MatchFieldsToAnchors(anchs, att_fields, pct_fields) ==
    [i \in 1..Len(anchs) |-> MatchEntry(anchs[i], att_fields, pct_fields)]

-----------------------------------------------------------------------------
(* _cluster_tokens_by_y, _build_course_dictionary                           *)

cluster_tolerance == 20

\* ClusterFrom adding the token to the last row within the tolerance (the
\* search without the break).
RECURSIVE ClusterFromLastRow(_, _, _)
ClusterFromLastRow(toks, i, rows_dict) ==
    IF i > Len(toks) THEN rows_dict
    ELSE LET near == {k \in 1..Len(rows_dict) :
                         Abs(toks[i].y_center - rows_dict[k].y) <= cluster_tolerance}
         IN  IF near = {}
             THEN ClusterFromLastRow(toks, i + 1,
                      Append(rows_dict, [y |-> toks[i].y_center, row |-> <<toks[i]>>]))
             ELSE ClusterFromLastRow(toks, i + 1,
                      [rows_dict EXCEPT ![CHOOSE k \in near : \A m \in near : m <= k].row
                                            = Append(@, toks[i])])

\* rows_dict after the tokens i.. have been added: a sequence, in insertion
\* order, of [y |-> key, row |-> tokens].
RECURSIVE ClusterFrom(_, _, _)
ClusterFrom(toks, i, rows_dict) ==
    IF i > Len(toks) THEN rows_dict
    ELSE LET near == {k \in 1..Len(rows_dict) :
                         Abs(toks[i].y_center - rows_dict[k].y) <= cluster_tolerance}
         IN  IF near = {}
             THEN ClusterFrom(toks, i + 1,
                      Append(rows_dict, [y |-> toks[i].y_center, row |-> <<toks[i]>>]))
             ELSE ClusterFrom(toks, i + 1,
                      [rows_dict EXCEPT ![Min(near)].row = Append(@, toks[i])])

\* sorted(row, key=lambda t: t['x_center']) (stable)
RECURSIVE InsertByX(_, _)
InsertByX(t, s) ==
    IF s = <<>> THEN <<t>>
    ELSE IF t.x_center <= Head(s).x_center THEN <<t>> \o s
    ELSE <<Head(s)>> \o InsertByX(t, Tail(s))
RECURSIVE SortedByX(_)
SortedByX(s) == IF s = <<>> THEN <<>> ELSE InsertByX(Head(s), SortedByX(Tail(s)))

\* for y in sorted(rows_dict.keys()) (the keys are distinct)
RECURSIVE InsertByY(_, _)
InsertByY(r, s) ==
    IF s = <<>> THEN <<r>>
    ELSE IF r.y <= Head(s).y THEN <<r>> \o s
    ELSE <<Head(s)>> \o InsertByY(r, Tail(s))
RECURSIVE SortedByY(_)
SortedByY(s) == IF s = <<>> THEN <<>> ELSE InsertByY(Head(s), SortedByY(Tail(s)))

ClusterTokensByY(toks) ==
    LET rows == SortedByY(ClusterFrom(toks, 1, <<>>))
    IN  [k \in 1..Len(rows) |-> SortedByX(rows[k].row)]

\* " ".join(t['text'].upper() for t in row)
RECURSIVE JoinUpper(_)
JoinUpper(row) ==
    IF row = <<>> THEN <<>>
    ELSE IF Len(row) = 1 THEN Upper(row[1].text)
    ELSE Upper(row[1].text) \o <<" ">> \o JoinUpper(Tail(row))

T_COURSE_CODE == <<"C", "O", "U", "R", "S", "E", " ", "C", "O", "D", "E">>
T_COURSE_NAME == <<"C", "O", "U", "R", "S", "E", " ", "N", "A", "M", "E">>

IsHeaderRow(row) ==
    Contains(JoinUpper(row), T_COURSE_CODE) \/ Contains(JoinUpper(row), T_COURSE_NAME)

\* The course code of a row: the normalized match of the first token with a
\* match (whose normalization is not empty); <<>> when there is none.
RECURSIVE RowCourseCode(_)
RowCourseCode(row) ==
    IF row = <<>> THEN <<>>
    ELSE LET m == CourseCodeSearch(Upper(Head(row).text))
         IN  IF m # <<>> /\ NormalizeCourseCode(m) # <<>> THEN NormalizeCourseCode(m)
             ELSE RowCourseCode(Tail(row))

\* name_candidates: the stripped, upper-cased texts longer than 8 characters
RECURSIVE NameCandidates(_)
NameCandidates(row) ==
    IF row = <<>> THEN <<>>
    ELSE (IF Len(Strip(Head(row).text)) > 8 THEN <<Upper(Strip(Head(row).text))>>
          ELSE <<>>)
         \o NameCandidates(Tail(row))

\* max(name_candidates, key=len): the first of the longest
MaxByLen(cands) ==
    cands[Min({i \in 1..Len(cands) : \A j \in 1..Len(cands) : Len(cands[j]) <= Len(cands[i])})]

\* course_dict[course_code] = course_name
DictStore(d, course_code, course_name) == (course_code :> course_name) @@ d

\* DictFrom without the skip of the header rows.
RECURSIVE DictFromKeepHeaders(_, _, _)
DictFromKeepHeaders(rows, k, d) ==
    IF k > Len(rows) THEN d
    ELSE IF RowCourseCode(rows[k]) = <<>> THEN DictFromKeepHeaders(rows, k + 1, d)
    ELSE IF NameCandidates(rows[k]) = <<>> THEN DictFromKeepHeaders(rows, k + 1, d)
    ELSE DictFromKeepHeaders(rows, k + 1,
             DictStore(d, RowCourseCode(rows[k]), MaxByLen(NameCandidates(rows[k]))))

\* The loop over the rows
RECURSIVE DictFrom(_, _, _)
DictFrom(rows, k, d) ==
    IF k > Len(rows) THEN d
    ELSE IF IsHeaderRow(rows[k]) THEN DictFrom(rows, k + 1, d)
    ELSE IF RowCourseCode(rows[k]) = <<>> THEN DictFrom(rows, k + 1, d)
    ELSE IF NameCandidates(rows[k]) = <<>> THEN DictFrom(rows, k + 1, d)
    ELSE DictFrom(rows, k + 1,
             DictStore(d, RowCourseCode(rows[k]), MaxByLen(NameCandidates(rows[k]))))

BuildCourseDictionary(right) == DictFrom(ClusterTokensByY(right), 1, <<>>)

-----------------------------------------------------------------------------
(* _inject_course_names                                                     *)

\* InjectCourseNames dropping the entries whose code is not in the dictionary.
RECURSIVE InjectCourseNamesDropMisses(_, _)
InjectCourseNamesDropMisses(ents, d) ==
    IF ents = <<>> THEN <<>>
    ELSE (IF Head(ents).course_code \in DOMAIN d
          THEN <<[course_name |-> d[Head(ents).course_code]] @@ Head(ents)>>
          ELSE <<>>)
         \o InjectCourseNamesDropMisses(Tail(ents), d)

\* The loop sets entry['course_name'] on every entry, in place.
InjectCourseNames(ents, d) ==
    [i \in 1..Len(ents) |->
        [course_name |-> IF ents[i].course_code \in DOMAIN d
                         THEN d[ents[i].course_code] ELSE UNKNOWN]
        @@ ents[i]]

-----------------------------------------------------------------------------
(* _validate_entries                                                        *)

\* round((present / total) * 100, 1) in tenths, on the exact quotient
\* (a tie goes to the even tenth).
RoundPercentage(present, total) ==
    LET q == (1000 * present) \div total
        r == (1000 * present) % total
    IN  IF 2 * r > total THEN q + 1
        ELSE IF 2 * r < total THEN q
        ELSE IF q % 2 = 0 THEN q ELSE q + 1

\* "if total > 0" and "present / total" raise TypeError on None.
RaisesOnCompute(e) ==
    e.percentage = None /\ (e.total = None \/ (e.total > 0 /\ e.present = None))

\* "if present > total and total > 0" raises TypeError on None.
RaisesOnCompare(e) == e.present = None \/ e.total = None

ValidateRaises(e) == RaisesOnCompute(e) \/ RaisesOnCompare(e)

\* ValidatedPercentage replacing a percentage more than 3 points off the
\* one computed from present and total.
ValidatedPercentageAutoCorrect(e) ==
    IF e.percentage = None
    THEN (IF e.total > 0 THEN RoundPercentage(e.present, e.total) ELSE 0)
    ELSE IF e.total > 0 /\ Abs(e.percentage * e.total - 1000 * e.present) > 30 * e.total
         THEN RoundPercentage(e.present, e.total)
    ELSE e.percentage

\* "if percentage is None: ..." and "entry['percentage'] = percentage"
ValidatedPercentage(e) ==
    IF e.percentage = None
    THEN (IF e.total > 0 THEN RoundPercentage(e.present, e.total) ELSE 0)
    ELSE e.percentage

ValidatedEntry(e) ==
    [e EXCEPT !.percentage = ValidatedPercentage(e),
              !.present = IF e.present = None \/ e.total = None THEN 0 ELSE @,
              !.total   = IF e.present = None \/ e.total = None THEN 0 ELSE @]

\* Whether _validate_entries raises on this list.
ValidateEntriesRaises(ents) == \E i \in 1..Len(ents) : ValidateRaises(ents[i])

\* ValidateEntries leaving out the entries with present > total and total > 0.
ValidateEntriesDropInvalid(ents) ==
    LET Kept(e) == ~(e.present > e.total /\ e.total > 0)
    IN  SelectSeq([i \in 1..Len(ents) |-> ValidatedEntry(ents[i])], Kept)

\* The loop over the entries
ValidateEntries(ents) == [i \in 1..Len(ents) |-> ValidatedEntry(ents[i])]

-----------------------------------------------------------------------------
(* _deduplicate_anchors                                                     *)

\* EntryKey without the class type.
EntryKeyCodeOnly(e) == <<e.course_code>>

EntryKey(e) == <<e.course_code, e.class_type>>

\* DedupReplaces without the "prefer non-zero total" branch.
DedupReplacesTieOnly(entry, existing) ==
    IF entry.total = existing.total THEN entry.y_center > existing.y_center
    ELSE FALSE

\* Whether entry takes the place of the existing entry of its key.
DedupReplaces(entry, existing) ==
    IF entry.total > 0 /\ existing.total = 0 THEN TRUE
    ELSE IF entry.total = existing.total THEN entry.y_center > existing.y_center
    ELSE FALSE

\* anchor_map (its values, in key insertion order) after entries i.. are added.
RECURSIVE DedupFrom(_, _, _)
DedupFrom(ents, i, anchor_map) ==
    IF i > Len(ents) THEN anchor_map
    ELSE LET same == {k \in 1..Len(anchor_map) : EntryKey(anchor_map[k]) = EntryKey(ents[i])}
         IN  IF same = {} THEN DedupFrom(ents, i + 1, Append(anchor_map, ents[i]))
             ELSE LET k == CHOOSE k \in same : TRUE
                  IN  IF DedupReplaces(ents[i], anchor_map[k])
                      THEN DedupFrom(ents, i + 1, [anchor_map EXCEPT ![k] = ents[i]])
                      ELSE DedupFrom(ents, i + 1, anchor_map)

DeduplicateAnchors(ents) == DedupFrom(ents, 1, <<>>)

-----------------------------------------------------------------------------
(* _build_final_entries, models.AttendanceEntry                             *)

\* TypeOrder with the two ranks exchanged.
TypeOrderSwapped(class_type) ==
    IF class_type = T_LECT THEN 1 ELSE IF class_type = T_LAB THEN 0 ELSE 2

\* type_order.get(x['class_type'], 2)
TypeOrder(class_type) ==
    IF class_type = T_LECT THEN 0 ELSE IF class_type = T_LAB THEN 1 ELSE 2

\* (course_code, type_order) <= (course_code, type_order) on tuples
SortKeyLeq(a, b) ==
    \/ StrLess(a.course_code, b.course_code)
    \/ /\ a.course_code = b.course_code
       /\ TypeOrder(a.class_type) <= TypeOrder(b.class_type)

\* sorted(entries, key=...) (stable)
RECURSIVE InsertByKey(_, _)
InsertByKey(e, s) ==
    IF s = <<>> THEN <<e>>
    ELSE IF SortKeyLeq(e, Head(s)) THEN <<e>> \o s
    ELSE <<Head(s)>> \o InsertByKey(e, Tail(s))
RECURSIVE SortedEntries(_)
SortedEntries(s) ==
    IF s = <<>> THEN <<>> ELSE InsertByKey(Head(s), SortedEntries(Tail(s)))

confidence_fixed == 95     \* 0.95, in hundredths

\* EntryIsValid without le=100 on percentage.
EntryIsValidNoUpperBound(e) ==
    /\ e.present # None /\ e.present >= 0
    /\ e.total # None /\ e.total >= 0
    /\ e.percentage # None /\ e.percentage >= 0

\* The field constraints of AttendanceEntry: ge=0 on present and total,
\* ge=0 and le=100 on percentage (an int field also rejects None).
EntryIsValid(e) ==
    /\ e.present # None /\ e.present >= 0
    /\ e.total # None /\ e.total >= 0
    /\ e.percentage # None /\ e.percentage >= 0 /\ e.percentage <= 1000

AttendanceEntry(e) ==
    [course_code |-> e.course_code,
     course_name |-> IF "course_name" \in DOMAIN e THEN e.course_name ELSE UNKNOWN,
     class_type  |-> e.class_type,
     present     |-> e.present,
     total       |-> e.total,
     percentage  |-> e.percentage,
     confidence  |-> confidence_fixed]

\* FinalFrom with the try around the whole loop: the first invalid entry ends it.
RECURSIVE FinalFromStopAtInvalid(_)
FinalFromStopAtInvalid(sorted_entries) ==
    IF sorted_entries = <<>> THEN <<>>
    ELSE IF EntryIsValid(Head(sorted_entries))
         THEN <<AttendanceEntry(Head(sorted_entries))>>
              \o FinalFromStopAtInvalid(Tail(sorted_entries))
         ELSE <<>>

\* The loop: "try: final.append(AttendanceEntry(...)) except: continue"
RECURSIVE FinalFrom(_)
FinalFrom(sorted_entries) ==
    IF sorted_entries = <<>> THEN <<>>
    ELSE (IF EntryIsValid(Head(sorted_entries))
          THEN <<AttendanceEntry(Head(sorted_entries))>> ELSE <<>>)
         \o FinalFrom(Tail(sorted_entries))

BuildFinalEntries(ents) == FinalFrom(SortedEntries(ents))

-----------------------------------------------------------------------------
(* Inputs                                                                   *)

MaxLines   == 4     \* OCR lines per image
MaxAnchors == 2     \* anchors handed to the matcher in a direct call
MaxFields  == 2     \* fields of each kind handed to the matcher in a direct call
MaxEntries == 2     \* entries handed to the deduplicator in a direct call
MaxLeft    == 3     \* left-region tokens handed to _detect_anchors in a direct call
MaxRight   == 3     \* right-region tokens handed to _build_course_dictionary
MaxFieldTokens == 2 \* tokens handed to the field detectors in a direct call
MaxClusterTokens == 3 \* tokens handed to _cluster_tokens_by_y
MaxCodeTokens == 2  \* tokens of each region in a call on codes of several scripts
MaxAnchorTokens == 3 \* tokens handed to _detect_anchors in a direct call
MaxRowTokens == 3   \* tokens handed to _build_course_dictionary in a direct call

SeqsUpTo(S, n) == UNION {[1..k -> S] : k \in 0..n}

T_CSUC == <<"C", "S", "U", "C">>
T_MATH == <<"M", "A", "T", "H">>
T_CSUC201 == T_CSUC \o <<"2", "0", "1">>
T_MATH101 == T_MATH \o <<"1", "0", "1">>
T_DATABASES == <<"D", "A", "T", "A", "B", "A", "S", "E", "S">>

\* The box with corners (x0, y0) and (x1, y1), in PaddleOCR's corner order.
Rect(x0, y0, x1, y1) == <<<<x0, y0>>, <<x1, y0>>, <<x1, y1>>, <<x0, y1>>>>

OcrLine(text, x0, y0, x1, y1) == [box |-> Rect(x0, y0, x1, y1), text |-> text, conf |-> 90]

\* OCR lines of an image 1000 pixels wide (the right edge of the rightmost
\* boxes): centre x 100 is in the course code zone, 400 in the class type
\* zone, 510 and 600 in the attendance zone, 850 and 900 in the percentage zone.
LinePool ==
    { OcrLine(T_CSUC201, 50, 190, 150, 210),                          \* (100, 200)
      OcrLine(T_LECT, 350, 193, 450, 213),                            \* (400, 203)
      OcrLine(<<"4", "2", "/", "5", "9">>, 550, 192, 650, 212),       \* (600, 202)
      OcrLine(<<"7", "1", ".", "2", "%">>, 800, 191, 1000, 211),      \* (900, 201)
      OcrLine(<<"3", "8", "/", "5", "2">>, 20, 195, 1000, 215),       \* (510, 205)
      OcrLine(T_MATH101, 50, 205, 150, 225),                          \* (100, 215)
      OcrLine(T_LAB, 350, 206, 450, 226),                             \* (400, 216)
      OcrLine(T_CSUC201 \o <<" ">> \o T_DATABASES, 700, 390, 1000, 410) } \* (850, 400)

\* Lines whose tokens fall left of the split of an image 1000 pixels wide,
\* for a call of _detect_anchors and the steps after it: two codes in the
\* course code zone, a code in the class type zone, class types at vertical
\* distance 3, 20 and 30 (LECT at y 203 and 220) and 2 and 21 (LAB at y 252
\* and 271) from the codes, an attendance field, and a code written in lower
\* case with a suffix after a slash.
LeftLinePool ==
    { OcrLine(T_CSUC201, 50, 190, 150, 210),                          \* (100, 200)
      OcrLine(<<"c", "s", "u", "c", "2", "0", "1", "/", "F", "S", "E">>,
              70, 195, 170, 215),                                     \* (120, 205)
      OcrLine(T_MATH101, 50, 240, 150, 260),                          \* (100, 250)
      OcrLine(T_CSUC201, 350, 190, 450, 210),                         \* (400, 200)
      OcrLine(T_LECT, 350, 193, 450, 213),                            \* (400, 203)
      OcrLine(T_LECT, 350, 210, 450, 230),                            \* (400, 220)
      OcrLine(T_LAB, 350, 242, 450, 262),                             \* (400, 252)
      OcrLine(T_LAB, 350, 261, 450, 281),                             \* (400, 271)
      OcrLine(<<"4", "2", "/", "5", "9">>, 20, 192, 1000, 212) }      \* (510, 202)

\* Lines for a direct call of _detect_anchors at image width 1000: those of
\* LeftLinePool and a text with both LAB and LECT at y 232, at distance 18
\* from the second code.
AnchorLinePool ==
    LeftLinePool \cup { OcrLine(T_LAB \o <<" ">> \o T_LECT, 350, 222, 450, 242) }  \* (400, 232)

\* The right-region token of those images.
RightLine == OcrLine(T_CSUC201 \o <<" ">> \o T_DATABASES, 700, 390, 1000, 410)

T_NETWORKING == <<"N", "E", "T", "W", "O", "R", "K", "I", "N", "G">>
T_CALCULUS == <<"C", "A", "L", "C", "U", "L", "U", "S">>

\* Lines of the right region (the legend) of an image 1000 pixels wide: a
\* header row at y 350, a row for CSUC201 at y 400, a second row for CSUC201
\* at y 450 made of a code token and a name token, and a row for MATH101 at
\* y 500.
RightLinePool ==
    { OcrLine(T_COURSE_CODE, 550, 340, 650, 360),                         \* (600, 350)
      RightLine,                                                          \* (850, 400)
      OcrLine(T_CSUC201, 550, 440, 650, 460),                             \* (600, 450)
      OcrLine(T_NETWORKING, 700, 442, 1000, 462),                         \* (850, 452)
      OcrLine(T_MATH101 \o <<" ">> \o T_CALCULUS, 700, 490, 1000, 510) }  \* (850, 500)

\* Lines for a direct call of _build_course_dictionary: those of
\* RightLinePool, a code with a name at y 360, within 20 of the header, and a
\* text of 9 characters at y 410, within 20 of the row at y 400 and left of it.
RowLinePool ==
    RightLinePool \cup
    { OcrLine(T_MATH101 \o <<" ">> \o T_CALCULUS, 700, 350, 1000, 370),   \* (850, 360)
      OcrLine(<<"C", "S", " ", "T", "H", "E", "O", "R", "Y">>,
              550, 400, 650, 420) }                                       \* (600, 410)

\* Lines of a right region whose rows lie close to each other: y 360, 380,
\* 400 and 421, so that the token at y 380 is within 20 of the tokens at y
\* 360 and y 400, which are not within 20 of each other, and the token at
\* y 421 is 21 away from y 400; two tokens share y 400.
ClusterLinePool ==
    { OcrLine(T_CSUC201 \o <<" ">> \o T_DATABASES, 700, 390, 1000, 410),  \* (850, 400)
      OcrLine(T_CSUC201, 550, 370, 650, 390),                             \* (600, 380)
      OcrLine(T_MATH101 \o <<" ">> \o T_CALCULUS, 700, 350, 1000, 370),   \* (850, 360)
      OcrLine(T_MATH101, 550, 411, 650, 431),                             \* (600, 421)
      OcrLine(T_NETWORKING, 650, 390, 750, 410) }                         \* (700, 400)

\* Lines with course codes as an OCR engine may read them, of an image 1000
\* pixels wide: with ASCII digits, with the letter O for a digit, and with
\* decimal digits outside ASCII; a class type for the left region and names
\* for the right region.
CodeLeftLinePool ==
    { OcrLine(T_CSUC201, 50, 190, 150, 210),                              \* (100, 200)
      OcrLine(T_CSUC \o <<"O", "0", "1">>, 50, 192, 150, 212),            \* (100, 202)
      OcrLine(T_CSUC \o <<ARABIC_TWO, ARABIC_TWO, ARABIC_TWO>>,
              50, 194, 150, 214),                                         \* (100, 204)
      OcrLine(T_LECT, 350, 193, 450, 213) }                               \* (400, 203)

CodeRightLinePool ==
    { OcrLine(T_MATH101 \o <<" ">> \o T_CALCULUS, 700, 490, 1000, 510),   \* (850, 500)
      OcrLine(T_CSUC \o <<"O", "0", "1", " ">> \o T_DATABASES,
              700, 440, 1000, 460),                                       \* (850, 450)
      OcrLine(T_CSUC \o <<ARABIC_TWO, ARABIC_TWO, ARABIC_TWO, " ">> \o T_DATABASES,
              700, 390, 1000, 410) }                                      \* (850, 400)

\* Entries as the matcher returns them.
MatchedPool ==
    { [course_code |-> T_CSUC201, class_type |-> T_LECT, present |-> 42, total |-> 59,
       percentage |-> 712, y_center |-> 200],
      [course_code |-> T_CSUC201, class_type |-> T_LAB, present |-> 38, total |-> 52,
       percentage |-> None, y_center |-> 230],
      [course_code |-> T_MATH101, class_type |-> T_LAB, present |-> None, total |-> None,
       percentage |-> None, y_center |-> 250] }

\* Entries as the name injector returns them: percentage unset with total
\* above 0 (42/59 is 71.19 %, 1/16 is 6.25 %, 60/59 is 101.69 %), percentage
\* unset with total 0, percentage set 17 points off present/total, and
\* attendance unset.
NamedPool ==
    { [course_code |-> T_CSUC201, class_type |-> t, present |-> a[1], total |-> a[2],
       percentage |-> a[3], y_center |-> 200, course_name |-> UNKNOWN] :
        t \in {T_LECT, T_LAB},
        a \in {<<42, 59, None>>, <<1, 16, None>>, <<60, 59, None>>, <<0, 0, None>>,
               <<38, 52, 900>>, <<None, None, None>>} }

\* Lines whose tokens are handed to the two field detectors at image width
\* 1000, as test_field_detection does: attendance and percentage texts in
\* their zones (x 600, x 900), on the zone boundaries (x 500, x 750) and in
\* another zone (x 400), with the values 100 and 101, with the letters O, l
\* and I for digits, with both patterns in one text, and a text with neither.
FieldLinePool ==
    { OcrLine(<<"4", "2", "/", "5", "9">>, 550, 190, 650, 210),           \* (600, 200)
      OcrLine(<<"7", "1", ".", "2", "%">>, 800, 193, 1000, 213),          \* (900, 203)
      OcrLine(<<"3", "8", "/", "5", "2">>, 350, 240, 450, 260),           \* (400, 250)
      OcrLine(<<"7", "3", "%">>, 550, 242, 650, 262),                     \* (600, 252)
      OcrLine(<<"4", "O", " ", "/", " ", "l", "I">>, 550, 290, 650, 310), \* (600, 300)
      OcrLine(<<"1", "0", "1", "/", "1", "2", "0">>, 550, 340, 650, 360), \* (600, 350)
      OcrLine(<<"1", "0", "0", "/", "1", "0", "0">>, 450, 390, 550, 410), \* (500, 400)
      OcrLine(<<"1", "0", "0", "%">>, 700, 390, 800, 410),                \* (750, 400)
      OcrLine(<<"1", "0", "0", ".", "5", "%">>, 800, 440, 1000, 460),     \* (900, 450)
      OcrLine(<<"5", "0", "/", "6", "0">>, 700, 490, 800, 510),           \* (750, 500)
      OcrLine(<<"9", "/", "1", "0", " ", "9", "0", "%">>, 550, 540, 650, 560), \* (600, 550)
      OcrLine(T_LECT, 550, 590, 650, 610) }                               \* (600, 600)

\* OCR results handed to successive calls of extract_table_data on one
\* extractor: no line, the four lines of a row, a row with its attendance
\* field left of the split and a legend row, a legend row alone, and two rows
\* with their attendance fields left of the split, the first with 60 present
\* of 59, and a legend row.
CallInputs ==
    { <<>>,
      << OcrLine(T_CSUC201, 50, 190, 150, 210),
         OcrLine(T_LECT, 350, 193, 450, 213),
         OcrLine(<<"4", "2", "/", "5", "9">>, 550, 192, 650, 212),
         OcrLine(<<"7", "1", ".", "2", "%">>, 800, 191, 1000, 211) >>,
      << OcrLine(T_CSUC201, 50, 190, 150, 210),
         OcrLine(T_LECT, 350, 193, 450, 213),
         OcrLine(<<"3", "8", "/", "5", "2">>, 20, 195, 1000, 215),
         RightLine >>,
      << RightLine >>,
      << OcrLine(T_CSUC201, 50, 190, 150, 210),
         OcrLine(T_LECT, 350, 193, 450, 213),
         OcrLine(<<"6", "0", "/", "5", "9">>, 20, 195, 1000, 215),
         OcrLine(T_MATH101, 50, 240, 150, 260),
         OcrLine(T_LAB, 350, 242, 450, 262),
         OcrLine(<<"3", "8", "/", "5", "2">>, 20, 245, 1000, 265),
         RightLine >> }

\* Image widths of the direct _get_x_ratio calls: 1000 as in
\* test_column_zoning, and 20, where every zone boundary is a pixel column.
ZoneWidths == {20, 1000}

\* Raw codes of 4 letters and 3 characters from digits and O, D, Q, I, L.
TailChars == {"0", "1", "2", "O", "D", "Q", "I", "L"}
RawCodes == {p \o t : p \in {T_CSUC, T_MATH}, t \in [1..3 -> TailChars]}

\* Raw codes of other shapes: 2 and 3 leading letters, 1 leading letter, no
\* letter, 6 letters, no alphanumeric character, and a suffix after a slash.
OddRawCodes ==
    { <<"A", "B", "1", "2">>,
      <<"C", "S", "2", "0", "1">>,
      <<"C", "S", "U", "2", "0", "1">>,
      <<"A", "1">>,
      <<"1", "2", "3", "4", "5", "6", "7", "8">>,
      <<"A", "B", "C", "D", "E", "F", "7">>,
      <<"%">>,
      <<"c", "s", "u", "c", "2", "0", "1", "/", "F", "S", "E">> }

AnchorPool ==
    { [course_code |-> T_CSUC201, class_type |-> T_LECT, x_center |-> 100, y_center |-> 200],
      [course_code |-> T_MATH101, class_type |-> T_LAB, x_center |-> 100, y_center |-> 250],
      [course_code |-> T_MATH101, class_type |-> T_LAB, x_center |-> 100, y_center |-> 210] }

AttendancePool ==
    { [present |-> 42, total |-> 59, x_center |-> 600, y_center |-> 205],
      [present |-> 38, total |-> 52, x_center |-> 600, y_center |-> 252],
      [present |-> 10, total |-> 20, x_center |-> 600, y_center |-> 195],
      [present |-> 5, total |-> 9, x_center |-> 600, y_center |-> 220] }

PercentagePool ==
    { [percentage |-> 712, x_center |-> 900, y_center |-> 203],
      [percentage |-> 730, x_center |-> 900, y_center |-> 251] }

\* Entries as the validator returns them.
EntryPool ==
    { [course_code |-> c, class_type |-> t, present |-> a[1], total |-> a[2],
       percentage |-> a[3], y_center |-> y, course_name |-> UNKNOWN] :
        c \in {T_CSUC201, T_MATH101}, t \in {T_LECT, T_LAB},
        a \in {<<0, 0, 0>>, <<38, 52, 731>>, <<42, 59, 712>>, <<60, 59, 1017>>},
        y \in {200, 250} }

-----------------------------------------------------------------------------
(* extract_table_data, step by step                                         *)

\* "if self.debug_mode: self.debug_info[key] = value"
DebugPut(info, key, value) == IF debug_mode THEN (key :> value) @@ info ELSE info

Init ==
    /\ pc = "ocr"
    /\ ocr_lines \in SeqsUpTo(LinePool, MaxLines)
    /\ tokens = <<>> /\ image_width = 0
    /\ left_tokens = <<>> /\ right_tokens = <<>> /\ anchors = <<>>
    /\ attendance_fields = <<>> /\ percentage_fields = <<>>
    /\ entries_matched = <<>> /\ course_dict = <<>> /\ entries_named = <<>>
    /\ entries_validated = <<>> /\ entries_unique = <<>> /\ final = <<>>
    /\ raw_code = <<>> /\ normalized = <<>>
    /\ debug_mode \in BOOLEAN /\ debug_info = <<>> /\ returned = <<>>
    /\ zone_x_center = 0 /\ in_zones = {}

\* Steps 1-2: "if not result or not result[0]: return []", else tokenize.
Tokenize ==
    /\ pc = "ocr"
    /\ IF ocr_lines = <<>>
       THEN /\ pc' = "done"
            /\ final' = <<>>
            /\ UNCHANGED <<tokens, image_width>>
       ELSE /\ pc' = "split"
            /\ tokens' = TokenizeOcrLines(ocr_lines)
            /\ image_width' = MaxX(ocr_lines)
            /\ UNCHANGED final
    /\ UNCHANGED <<ocr_lines, left_tokens, right_tokens, anchors, attendance_fields,
                   percentage_fields, entries_matched, course_dict, entries_named,
                   entries_validated, entries_unique, raw_code, normalized>>
    /\ UNCHANGED <<debug_mode, debug_info, returned, zone_x_center, in_zones>>

\* Step 3
SplitLeftRight ==
    /\ pc = "split"
    /\ left_tokens' = SplitLeft(tokens, image_width)
    /\ right_tokens' = SplitRight(tokens, image_width)
    /\ pc' = "anchors"
    /\ UNCHANGED <<ocr_lines, tokens, image_width, anchors, attendance_fields,
                   percentage_fields, entries_matched, course_dict, entries_named,
                   entries_validated, entries_unique, final, raw_code, normalized>>
    /\ debug_info' = DebugPut(DebugPut(DebugPut(DebugPut(DebugPut(debug_info,
                       "split_threshold", SplitThreshold(tokens, image_width)),
                       "image_width", image_width),
                       "all_tokens", tokens),
                       "left_tokens", left_tokens'),
                       "right_tokens", right_tokens')
    /\ UNCHANGED <<debug_mode, returned, zone_x_center, in_zones>>

\* DetectAnchorsStep without the early return.
DetectAnchorsStepNoReturn ==
    /\ pc = "anchors"
    /\ anchors' = DetectAnchors(left_tokens, image_width)
    /\ pc' = "attendance"
    /\ debug_info' = DebugPut(debug_info, "anchors", anchors')
    /\ UNCHANGED <<ocr_lines, tokens, image_width, left_tokens, right_tokens,
                   attendance_fields, percentage_fields, entries_matched, course_dict,
                   entries_named, entries_validated, entries_unique, final, raw_code,
                   normalized, debug_mode, returned, zone_x_center, in_zones>>

\* Step 4: "if not anchors: return []"
DetectAnchorsStep ==
    /\ pc = "anchors"
    /\ anchors' = DetectAnchors(left_tokens, image_width)
    /\ IF anchors' = <<>>
       THEN pc' = "done" /\ final' = <<>>
       ELSE pc' = "attendance" /\ UNCHANGED final
    /\ UNCHANGED <<ocr_lines, tokens, image_width, left_tokens, right_tokens,
                   attendance_fields, percentage_fields, entries_matched, course_dict,
                   entries_named, entries_validated, entries_unique, raw_code,
                   normalized>>
    /\ debug_info' = IF anchors' = <<>> THEN debug_info
                     ELSE DebugPut(debug_info, "anchors", anchors')
    /\ UNCHANGED <<debug_mode, returned, zone_x_center, in_zones>>

\* Step 5
DetectAttendanceStep ==
    /\ pc = "attendance"
    /\ attendance_fields' = DetectAttendanceFields(left_tokens, image_width)
    /\ pc' = "percentage"
    /\ UNCHANGED <<ocr_lines, tokens, image_width, left_tokens, right_tokens, anchors,
                   percentage_fields, entries_matched, course_dict, entries_named,
                   entries_validated, entries_unique, final, raw_code, normalized>>
    /\ debug_info' = DebugPut(debug_info, "attendance_fields", attendance_fields')
    /\ UNCHANGED <<debug_mode, returned, zone_x_center, in_zones>>

\* Step 6
DetectPercentageStep ==
    /\ pc = "percentage"
    /\ percentage_fields' = DetectPercentageFields(left_tokens, image_width)
    /\ pc' = "match"
    /\ UNCHANGED <<ocr_lines, tokens, image_width, left_tokens, right_tokens, anchors,
                   attendance_fields, entries_matched, course_dict, entries_named,
                   entries_validated, entries_unique, final, raw_code, normalized>>
    /\ debug_info' = DebugPut(debug_info, "percentage_fields", percentage_fields')
    /\ UNCHANGED <<debug_mode, returned, zone_x_center, in_zones>>

\* Step 7
MatchFields ==
    /\ pc = "match"
    /\ entries_matched' = MatchFieldsToAnchors(anchors, attendance_fields, percentage_fields)
    /\ pc' = "dictionary"
    /\ UNCHANGED <<ocr_lines, tokens, image_width, left_tokens, right_tokens, anchors,
                   attendance_fields, percentage_fields, course_dict, entries_named,
                   entries_validated, entries_unique, final, raw_code, normalized>>
    /\ UNCHANGED <<debug_mode, debug_info, returned, zone_x_center, in_zones>>

\* Step 8
BuildDictionary ==
    /\ pc = "dictionary"
    /\ course_dict' = BuildCourseDictionary(right_tokens)
    /\ pc' = "inject"
    /\ UNCHANGED <<ocr_lines, tokens, image_width, left_tokens, right_tokens, anchors,
                   attendance_fields, percentage_fields, entries_matched, entries_named,
                   entries_validated, entries_unique, final, raw_code, normalized>>
    /\ debug_info' = DebugPut(debug_info, "course_dict", course_dict')
    /\ UNCHANGED <<debug_mode, returned, zone_x_center, in_zones>>

\* Step 9
InjectNames ==
    /\ pc = "inject"
    /\ entries_named' = InjectCourseNames(entries_matched, course_dict)
    /\ pc' = "validate"
    /\ UNCHANGED <<ocr_lines, tokens, image_width, left_tokens, right_tokens, anchors,
                   attendance_fields, percentage_fields, entries_matched, course_dict,
                   entries_validated, entries_unique, final, raw_code, normalized>>
    /\ UNCHANGED <<debug_mode, debug_info, returned, zone_x_center, in_zones>>

\* Step 10: a TypeError raised by _validate_entries leaves the try block.
Validate ==
    /\ pc = "validate"
    /\ IF ValidateEntriesRaises(entries_named)
       THEN pc' = "except" /\ UNCHANGED entries_validated
       ELSE pc' = "dedup" /\ entries_validated' = ValidateEntries(entries_named)
    /\ UNCHANGED <<ocr_lines, tokens, image_width, left_tokens, right_tokens, anchors,
                   attendance_fields, percentage_fields, entries_matched, course_dict,
                   entries_named, entries_unique, final, raw_code, normalized>>
    /\ UNCHANGED <<debug_mode, debug_info, returned, zone_x_center, in_zones>>

\* "except Exception as e: ... return []"
HandleException ==
    /\ pc = "except"
    /\ final' = <<>>
    /\ pc' = "done"
    /\ UNCHANGED <<ocr_lines, tokens, image_width, left_tokens, right_tokens, anchors,
                   attendance_fields, percentage_fields, entries_matched, course_dict,
                   entries_named, entries_validated, entries_unique, raw_code,
                   normalized>>
    /\ UNCHANGED <<debug_mode, debug_info, returned, zone_x_center, in_zones>>

\* Step 11
Deduplicate ==
    /\ pc = "dedup"
    /\ entries_unique' = DeduplicateAnchors(entries_validated)
    /\ pc' = "final"
    /\ UNCHANGED <<ocr_lines, tokens, image_width, left_tokens, right_tokens, anchors,
                   attendance_fields, percentage_fields, entries_matched, course_dict,
                   entries_named, entries_validated, final, raw_code, normalized>>
    /\ UNCHANGED <<debug_mode, debug_info, returned, zone_x_center, in_zones>>

\* BuildFinal where storing the final entries in debug mode raises.
BuildFinalDebugRaises ==
    /\ pc = "final"
    /\ IF debug_mode
       THEN pc' = "except" /\ UNCHANGED final
       ELSE pc' = "done" /\ final' = BuildFinalEntries(entries_unique)
    /\ UNCHANGED <<ocr_lines, tokens, image_width, left_tokens, right_tokens, anchors,
                   attendance_fields, percentage_fields, entries_matched, course_dict,
                   entries_named, entries_validated, entries_unique, raw_code,
                   normalized, debug_mode, debug_info, returned, zone_x_center,
                   in_zones>>

\* Step 12
BuildFinal ==
    /\ pc = "final"
    /\ final' = BuildFinalEntries(entries_unique)
    /\ pc' = "done"
    /\ UNCHANGED <<ocr_lines, tokens, image_width, left_tokens, right_tokens, anchors,
                   attendance_fields, percentage_fields, entries_matched, course_dict,
                   entries_named, entries_validated, entries_unique, raw_code,
                   normalized>>
    /\ debug_info' = DebugPut(debug_info, "final_entries", final')
    /\ UNCHANGED <<debug_mode, returned, zone_x_center, in_zones>>

Next ==
    \/ Tokenize
    \/ SplitLeftRight
    \/ DetectAnchorsStep
    \/ DetectAttendanceStep
    \/ DetectPercentageStep
    \/ MatchFields
    \/ BuildDictionary
    \/ InjectNames
    \/ Validate
    \/ HandleException
    \/ Deduplicate
    \/ BuildFinal

Spec == Init /\ [][Next]_vars

-----------------------------------------------------------------------------
(* Direct calls of the methods, as test_anchor_system.py makes them         *)

\* _match_fields_to_anchors(anchors, attendance_fields, percentage_fields)
InitMatcher ==
    /\ pc = "match"
    /\ anchors \in SeqsUpTo(AnchorPool, MaxAnchors)
    /\ attendance_fields \in SeqsUpTo(AttendancePool, MaxFields)
    /\ percentage_fields \in SeqsUpTo(PercentagePool, MaxFields)
    /\ ocr_lines = <<>> /\ tokens = <<>> /\ image_width = 1000
    /\ left_tokens = <<>> /\ right_tokens = <<>>
    /\ entries_matched = <<>> /\ course_dict = <<>> /\ entries_named = <<>>
    /\ entries_validated = <<>> /\ entries_unique = <<>> /\ final = <<>>
    /\ raw_code = <<>> /\ normalized = <<>>
    /\ debug_mode = FALSE /\ debug_info = <<>> /\ returned = <<>>
    /\ zone_x_center = 0 /\ in_zones = {}

NextMatcher == MatchFields

SpecMatcher == InitMatcher /\ [][NextMatcher]_vars

\* _deduplicate_anchors(entries), then _build_final_entries
InitEntries ==
    /\ pc = "dedup"
    /\ entries_validated \in SeqsUpTo(EntryPool, MaxEntries)
    /\ ocr_lines = <<>> /\ tokens = <<>> /\ image_width = 1000
    /\ left_tokens = <<>> /\ right_tokens = <<>> /\ anchors = <<>>
    /\ attendance_fields = <<>> /\ percentage_fields = <<>>
    /\ entries_matched = <<>> /\ course_dict = <<>> /\ entries_named = <<>>
    /\ entries_unique = <<>> /\ final = <<>>
    /\ raw_code = <<>> /\ normalized = <<>>
    /\ debug_mode = FALSE /\ debug_info = <<>> /\ returned = <<>>
    /\ zone_x_center = 0 /\ in_zones = {}

NextEntries == Deduplicate \/ BuildFinal

SpecEntries == InitEntries /\ [][NextEntries]_vars

\* _normalize_course_code(raw_code)
InitNormalize ==
    /\ pc = "normalize"
    /\ raw_code \in RawCodes \cup OddRawCodes
    /\ normalized = <<>>
    /\ debug_mode = FALSE /\ debug_info = <<>> /\ returned = <<>>
    /\ zone_x_center = 0 /\ in_zones = {}
    /\ ocr_lines = <<>> /\ tokens = <<>> /\ image_width = 1000
    /\ left_tokens = <<>> /\ right_tokens = <<>> /\ anchors = <<>>
    /\ attendance_fields = <<>> /\ percentage_fields = <<>>
    /\ entries_matched = <<>> /\ course_dict = <<>> /\ entries_named = <<>>
    /\ entries_validated = <<>> /\ entries_unique = <<>> /\ final = <<>>

NormalizeCall ==
    /\ pc = "normalize"
    /\ normalized' = NormalizeCourseCode(raw_code)
    /\ pc' = "done"
    /\ UNCHANGED <<ocr_lines, tokens, image_width, left_tokens, right_tokens, anchors,
                   attendance_fields, percentage_fields, entries_matched, course_dict,
                   entries_named, entries_validated, entries_unique, final, raw_code>>
    /\ UNCHANGED <<debug_mode, debug_info, returned, zone_x_center, in_zones>>

NextNormalize == NormalizeCall

SpecNormalize == InitNormalize /\ [][NextNormalize]_vars

\* _detect_anchors(left_tokens, image_width) and the steps that follow it in
\* extract_table_data, on the left and right regions of an image 1000 wide.
InitLeft ==
    /\ pc = "anchors"
    /\ left_tokens \in {TokenizeOcrLines(ls) : ls \in SeqsUpTo(LeftLinePool, MaxLeft)}
    /\ right_tokens = TokenizeOcrLines(<<RightLine>>)
    /\ tokens = left_tokens \o right_tokens
    /\ image_width = 1000
    /\ ocr_lines = <<>> /\ anchors = <<>>
    /\ attendance_fields = <<>> /\ percentage_fields = <<>>
    /\ entries_matched = <<>> /\ course_dict = <<>> /\ entries_named = <<>>
    /\ entries_validated = <<>> /\ entries_unique = <<>> /\ final = <<>>
    /\ raw_code = <<>> /\ normalized = <<>>
    /\ debug_mode = FALSE /\ debug_info = <<>> /\ returned = <<>>
    /\ zone_x_center = 0 /\ in_zones = {}

NextLeft ==
    \/ DetectAnchorsStep
    \/ DetectAttendanceStep
    \/ DetectPercentageStep
    \/ MatchFields
    \/ BuildDictionary
    \/ InjectNames
    \/ Validate
    \/ HandleException
    \/ Deduplicate
    \/ BuildFinal

SpecLeft == InitLeft /\ [][NextLeft]_vars

\* _build_course_dictionary(right_tokens), then _inject_course_names(entries,
\* course_dict)
InitDictionary ==
    /\ pc = "dictionary"
    /\ right_tokens \in {TokenizeOcrLines(ls) : ls \in SeqsUpTo(RightLinePool, MaxRight)}
    /\ entries_matched \in SeqsUpTo(MatchedPool, MaxEntries)
    /\ image_width = 1000
    /\ ocr_lines = <<>> /\ tokens = <<>> /\ left_tokens = <<>> /\ anchors = <<>>
    /\ attendance_fields = <<>> /\ percentage_fields = <<>>
    /\ course_dict = <<>> /\ entries_named = <<>>
    /\ entries_validated = <<>> /\ entries_unique = <<>> /\ final = <<>>
    /\ raw_code = <<>> /\ normalized = <<>>
    /\ debug_mode = FALSE /\ debug_info = <<>> /\ returned = <<>>
    /\ zone_x_center = 0 /\ in_zones = {}

NextDictionary == BuildDictionary \/ InjectNames

SpecDictionary == InitDictionary /\ [][NextDictionary]_vars

\* _detect_anchors(left_tokens, image_width)
InitAnchors ==
    /\ pc = "anchors"
    /\ left_tokens \in {TokenizeOcrLines(ls) : ls \in SeqsUpTo(AnchorLinePool, MaxAnchorTokens)}
    /\ right_tokens = <<>>
    /\ tokens = left_tokens
    /\ image_width = 1000
    /\ ocr_lines = <<>> /\ anchors = <<>>
    /\ attendance_fields = <<>> /\ percentage_fields = <<>>
    /\ entries_matched = <<>> /\ course_dict = <<>> /\ entries_named = <<>>
    /\ entries_validated = <<>> /\ entries_unique = <<>> /\ final = <<>>
    /\ raw_code = <<>> /\ normalized = <<>>
    /\ debug_mode = FALSE /\ debug_info = <<>> /\ returned = <<>>
    /\ zone_x_center = 0 /\ in_zones = {}

SpecAnchors == InitAnchors /\ [][DetectAnchorsStep]_vars

\* _build_course_dictionary(right_tokens)
InitRows ==
    /\ pc = "dictionary"
    /\ right_tokens \in {TokenizeOcrLines(ls) : ls \in SeqsUpTo(RowLinePool, MaxRowTokens)}
    /\ entries_matched = <<>>
    /\ image_width = 1000
    /\ ocr_lines = <<>> /\ tokens = <<>> /\ left_tokens = <<>> /\ anchors = <<>>
    /\ attendance_fields = <<>> /\ percentage_fields = <<>>
    /\ course_dict = <<>> /\ entries_named = <<>>
    /\ entries_validated = <<>> /\ entries_unique = <<>> /\ final = <<>>
    /\ raw_code = <<>> /\ normalized = <<>>
    /\ debug_mode = FALSE /\ debug_info = <<>> /\ returned = <<>>
    /\ zone_x_center = 0 /\ in_zones = {}

SpecRows == InitRows /\ [][BuildDictionary]_vars

\* _build_course_dictionary(right_tokens) on rows that lie close to each
\* other, for its call of _cluster_tokens_by_y
InitCluster ==
    /\ pc = "dictionary"
    /\ right_tokens \in {TokenizeOcrLines(ls) : ls \in SeqsUpTo(ClusterLinePool, MaxClusterTokens)}
    /\ entries_matched = <<>>
    /\ image_width = 1000
    /\ ocr_lines = <<>> /\ tokens = <<>> /\ left_tokens = <<>> /\ anchors = <<>>
    /\ attendance_fields = <<>> /\ percentage_fields = <<>>
    /\ course_dict = <<>> /\ entries_named = <<>>
    /\ entries_validated = <<>> /\ entries_unique = <<>> /\ final = <<>>
    /\ raw_code = <<>> /\ normalized = <<>>
    /\ debug_mode = FALSE /\ debug_info = <<>> /\ returned = <<>>
    /\ zone_x_center = 0 /\ in_zones = {}

SpecCluster == InitCluster /\ [][BuildDictionary]_vars

\* _detect_anchors and the steps that follow it up to _inject_course_names,
\* on tokens whose codes are written in several ways
InitCodes ==
    /\ pc = "anchors"
    /\ left_tokens \in {TokenizeOcrLines(ls) : ls \in SeqsUpTo(CodeLeftLinePool, MaxCodeTokens)}
    /\ right_tokens \in {TokenizeOcrLines(ls) : ls \in SeqsUpTo(CodeRightLinePool, MaxCodeTokens)}
    /\ tokens = left_tokens \o right_tokens
    /\ image_width = 1000
    /\ ocr_lines = <<>> /\ anchors = <<>>
    /\ attendance_fields = <<>> /\ percentage_fields = <<>>
    /\ entries_matched = <<>> /\ course_dict = <<>> /\ entries_named = <<>>
    /\ entries_validated = <<>> /\ entries_unique = <<>> /\ final = <<>>
    /\ raw_code = <<>> /\ normalized = <<>>
    /\ debug_mode = FALSE /\ debug_info = <<>> /\ returned = <<>>
    /\ zone_x_center = 0 /\ in_zones = {}

NextCodes ==
    \/ DetectAnchorsStep \/ DetectAttendanceStep \/ DetectPercentageStep
    \/ MatchFields \/ BuildDictionary \/ InjectNames

SpecCodes == InitCodes /\ [][NextCodes]_vars

\* _validate_entries(entries); a TypeError it raises reaches the except
\* clause of extract_table_data.
InitValidate ==
    /\ pc = "validate"
    /\ entries_named \in SeqsUpTo(NamedPool, MaxEntries)
    /\ image_width = 1000
    /\ ocr_lines = <<>> /\ tokens = <<>>
    /\ left_tokens = <<>> /\ right_tokens = <<>> /\ anchors = <<>>
    /\ attendance_fields = <<>> /\ percentage_fields = <<>>
    /\ entries_matched = <<>> /\ course_dict = <<>>
    /\ entries_validated = <<>> /\ entries_unique = <<>> /\ final = <<>>
    /\ raw_code = <<>> /\ normalized = <<>>
    /\ debug_mode = FALSE /\ debug_info = <<>> /\ returned = <<>>
    /\ zone_x_center = 0 /\ in_zones = {}

NextValidate == Validate \/ HandleException

SpecValidate == InitValidate /\ [][NextValidate]_vars

\* _detect_attendance_fields(tokens, image_width), then
\* _detect_percentage_fields(tokens, image_width)
InitFields ==
    /\ pc = "attendance"
    /\ left_tokens \in {TokenizeOcrLines(ls) : ls \in SeqsUpTo(FieldLinePool, MaxFieldTokens)}
    /\ image_width = 1000
    /\ ocr_lines = <<>> /\ tokens = <<>> /\ right_tokens = <<>> /\ anchors = <<>>
    /\ attendance_fields = <<>> /\ percentage_fields = <<>>
    /\ entries_matched = <<>> /\ course_dict = <<>> /\ entries_named = <<>>
    /\ entries_validated = <<>> /\ entries_unique = <<>> /\ final = <<>>
    /\ raw_code = <<>> /\ normalized = <<>>
    /\ debug_mode = FALSE /\ debug_info = <<>> /\ returned = <<>>
    /\ zone_x_center = 0 /\ in_zones = {}

NextFields == DetectAttendanceStep \/ DetectPercentageStep

SpecFields == InitFields /\ [][NextFields]_vars

\* One extractor, called again and again: the state after __init__, then
\* extract_table_data(image, debug) for any OCR result and any debug flag.
InitCalls ==
    /\ pc = "idle"
    /\ debug_mode = FALSE /\ debug_info = <<>> /\ returned = <<>>
    /\ ocr_lines = <<>> /\ tokens = <<>> /\ image_width = 0
    /\ left_tokens = <<>> /\ right_tokens = <<>> /\ anchors = <<>>
    /\ attendance_fields = <<>> /\ percentage_fields = <<>>
    /\ entries_matched = <<>> /\ course_dict = <<>> /\ entries_named = <<>>
    /\ entries_validated = <<>> /\ entries_unique = <<>> /\ final = <<>>
    /\ raw_code = <<>> /\ normalized = <<>>
    /\ zone_x_center = 0 /\ in_zones = {}

\* Entry of extract_table_data: "self.debug_mode = debug; self.debug_info = {}"
\* and the OCR result, with fresh locals.  returned keeps, for each OCR result,
\* what the first call on it returned and the debug flag of that call.
Call ==
    /\ pc \in {"idle", "done"}
    /\ \E lines \in CallInputs, debug \in BOOLEAN :
           /\ ocr_lines' = lines
           /\ debug_mode' = debug
    /\ debug_info' = <<>>
    /\ returned' = IF pc = "done" /\ ocr_lines \notin DOMAIN returned
                   THEN (ocr_lines :> [result |-> final, debug |-> debug_mode]) @@ returned
                   ELSE returned
    /\ pc' = "ocr"
    /\ tokens' = <<>> /\ image_width' = 0
    /\ left_tokens' = <<>> /\ right_tokens' = <<>> /\ anchors' = <<>>
    /\ attendance_fields' = <<>> /\ percentage_fields' = <<>>
    /\ entries_matched' = <<>> /\ course_dict' = <<>> /\ entries_named' = <<>>
    /\ entries_validated' = <<>> /\ entries_unique' = <<>> /\ final' = <<>>
    /\ UNCHANGED <<raw_code, normalized, zone_x_center, in_zones>>

NextCalls == Call \/ Next

SpecCalls == InitCalls /\ [][NextCalls]_vars

\* _get_x_ratio(x_center, image_width), then _in_zone for each of the zones
InitZone ==
    /\ pc = "zone"
    /\ image_width \in ZoneWidths
    /\ zone_x_center \in 0..image_width
    /\ in_zones = {}
    /\ ocr_lines = <<>> /\ tokens = <<>>
    /\ left_tokens = <<>> /\ right_tokens = <<>> /\ anchors = <<>>
    /\ attendance_fields = <<>> /\ percentage_fields = <<>>
    /\ entries_matched = <<>> /\ course_dict = <<>> /\ entries_named = <<>>
    /\ entries_validated = <<>> /\ entries_unique = <<>> /\ final = <<>>
    /\ raw_code = <<>> /\ normalized = <<>>
    /\ debug_mode = FALSE /\ debug_info = <<>> /\ returned = <<>>

ZoneCall ==
    /\ pc = "zone"
    /\ in_zones' = {z \in DOMAIN Zones :
                       InZone(GetXRatio(zone_x_center, image_width), Zones[z])}
    /\ pc' = "done"
    /\ UNCHANGED <<ocr_lines, tokens, image_width, left_tokens, right_tokens, anchors,
                   attendance_fields, percentage_fields, entries_matched, course_dict,
                   entries_named, entries_validated, entries_unique, final, raw_code,
                   normalized, debug_mode, debug_info, returned, zone_x_center>>

NextZone == ZoneCall

SpecZone == InitZone /\ [][NextZone]_vars

-----------------------------------------------------------------------------
(* Claims                                                                   *)

\* The key of an entry, written out.
KeyOf(e) == <<e.course_code, e.class_type>>

\* The four OCR lines of the end-to-end scenario, at image width 1000.
ScenarioLines ==
    << OcrLine(T_CSUC201, 50, 190, 150, 210),
       OcrLine(T_LECT, 350, 193, 450, 213),
       OcrLine(<<"4", "2", "/", "5", "9">>, 550, 192, 650, 212),
       OcrLine(<<"7", "1", ".", "2", "%">>, 800, 191, 1000, 211) >>

\* C1: the pipeline run on the tokens CSUC201 (x 100, y 200), LECT (x 400,
\* y 203), 42/59 (x 600, y 202) and 71.2% (x 900, y 201) at image width 1000
\* returns exactly one record: CSUC201, LECT, present 42, total 59,
\* percentage 71.2.
C1_EndToEndScenario ==
    (pc = "done" /\ ocr_lines = ScenarioLines) =>
        /\ Len(final) = 1
        /\ final[1].course_code = T_CSUC201
        /\ final[1].class_type = T_LECT
        /\ final[1].present = 42
        /\ final[1].total = 59
        /\ final[1].percentage = 712

\* C2: validation never raises, and every anchor whose entry has present and
\* total unset after matching still has a record of its key, with present 0
\* and total 0, in the final output.
C2_PartialLossKeepsRow ==
    /\ pc # "except"
    /\ pc = "done" =>
          \A i \in 1..Len(entries_matched) :
              (entries_matched[i].present = None /\ entries_matched[i].total = None) =>
                  \E k \in 1..Len(final) :
                      /\ KeyOf(final[k]) = KeyOf(entries_matched[i])
                      /\ final[k].present = 0
                      /\ final[k].total = 0

\* C3: whenever the Anchor Detector has emitted at least one anchor, the
\* pipeline returns a non-empty list.
C3_OnlyNoAnchorsEmptiesResult ==
    (pc = "done" /\ anchors # <<>>) => final # <<>>

\* The code the claim expects for a raw code of 4 letters and 3 tail
\* characters: the letters, then each tail character with O, D, Q read as 0
\* and I, L read as 1.
ExpectedCode(raw) ==
    SubSeq(raw, 1, 4) \o [i \in 1..3 |-> IF raw[4 + i] \in {"O", "D", "Q"} THEN "0"
                                         ELSE IF raw[4 + i] \in {"I", "L"} THEN "1"
                                         ELSE raw[4 + i]]

\* C4: a code of 4 letters followed by 3 characters drawn from digits and
\* O, D, Q, I, L normalizes to the 4 letters followed by the 3 characters with
\* O, D, Q mapped to 0 and I, L mapped to 1 (CSUCO01 gives CSUC001, CSUCIO1
\* gives CSUC101).
C4_NormalizeFixesTail ==
    (pc = "done" /\ raw_code \in RawCodes) => normalized = ExpectedCode(raw_code)

\* C5: the list returned by the Entry Assembler is non-decreasing by
\* course_code, and among records of equal course_code no LAB record precedes
\* a LECT record.
C5_SortInvariant ==
    pc = "done" =>
        \A i, j \in 1..Len(final) :
            i < j =>
                /\ ~StrLess(final[j].course_code, final[i].course_code)
                /\ final[i].course_code = final[j].course_code =>
                       ~(final[i].class_type = T_LAB /\ final[j].class_type = T_LECT)

\* C5 witness: two entries handed over in descending key order are both
\* emitted, in ascending order.
C5_Witness ==
    /\ pc = "done"
    /\ Len(entries_unique) = 2
    /\ Len(final) = 2
    /\ \/ StrLess(entries_unique[2].course_code, entries_unique[1].course_code)
       \/ /\ entries_unique[1].course_code = entries_unique[2].course_code
          /\ entries_unique[1].class_type = T_LAB
          /\ entries_unique[2].class_type = T_LECT
    /\ final[1].course_code = entries_unique[2].course_code
    /\ final[1].class_type = entries_unique[2].class_type

\* C6: the output of the Deduplicator holds at most one entry per
\* (course_code, class_type) key and one for each key of its input; no two
\* records of the final output share a key.
C6_KeyUniqueness ==
    /\ pc \in {"final", "done"} =>
          /\ \A i, j \in 1..Len(entries_unique) :
                 KeyOf(entries_unique[i]) = KeyOf(entries_unique[j]) => i = j
          /\ {KeyOf(entries_unique[i]) : i \in 1..Len(entries_unique)}
                 = {KeyOf(entries_validated[i]) : i \in 1..Len(entries_validated)}
    /\ pc = "done" =>
          \A i, j \in 1..Len(final) : KeyOf(final[i]) = KeyOf(final[j]) => i = j

\* C6 witness: two input entries of one key leave one entry.
C6_Witness ==
    /\ pc = "final"
    /\ Len(entries_validated) = 2
    /\ KeyOf(entries_validated[1]) = KeyOf(entries_validated[2])
    /\ entries_validated[1] # entries_validated[2]
    /\ Len(entries_unique) = 1

\* The pairs of input entries that alone share their key.
KeyPairs ==
    {p \in (1..Len(entries_validated)) \X (1..Len(entries_validated)) :
        /\ p[1] < p[2]
        /\ KeyOf(entries_validated[p[1]]) = KeyOf(entries_validated[p[2]])
        /\ \A k \in 1..Len(entries_validated) :
               KeyOf(entries_validated[k]) = KeyOf(entries_validated[p[1]]) => k \in {p[1], p[2]}}

\* The entry of the Deduplicator's output that has the key of input entry i.
Survivor(i) ==
    entries_unique[CHOOSE k \in 1..Len(entries_unique) :
                       KeyOf(entries_unique[k]) = KeyOf(entries_validated[i])]

\* C7: when two entries share a key and exactly one of them has total = 0,
\* the Deduplicator keeps the one with non-zero total, whichever comes first
\* and whatever their y_center.
C7_DedupPrefersNonZeroTotal ==
    pc = "final" =>
        \A p \in KeyPairs :
            LET a == entries_validated[p[1]]
                b == entries_validated[p[2]]
            IN  /\ (a.total = 0 /\ b.total # 0) => Survivor(p[1]) = b
                /\ (a.total # 0 /\ b.total = 0) => Survivor(p[1]) = a

\* C7 witness: the entry with total 0 comes first and lies lower in the page,
\* and the later entry with non-zero total replaces it.
C7_Witness ==
    /\ pc = "final"
    /\ \E p \in KeyPairs :
           /\ entries_validated[p[1]].total = 0
           /\ entries_validated[p[2]].total # 0
           /\ entries_validated[p[1]].y_center > entries_validated[p[2]].y_center
           /\ Survivor(p[1]) = entries_validated[p[2]]

\* C8: when two entries share a key and both have non-zero total (equal or
\* different), or both have total = 0, the Deduplicator keeps the one with the
\* larger y_center, whichever comes first.
C8_DedupTieBreakByPosition ==
    pc = "final" =>
        \A p \in KeyPairs :
            LET a == entries_validated[p[1]]
                b == entries_validated[p[2]]
            IN  ((a.total = 0) <=> (b.total = 0)) =>
                    /\ a.y_center > b.y_center => Survivor(p[1]) = a
                    /\ b.y_center > a.y_center => Survivor(p[1]) = b

\* C9: no attendance field and no percentage field is attached by the
\* Matcher to two different anchors (anchors of different keys, which become
\* different entries of the output).
C9_FieldExclusivity ==
    pc = "dictionary" =>
        \A i, j \in 1..Len(anchors) :
            KeyOf(anchors[i]) # KeyOf(anchors[j]) =>
                /\ BestField(anchors[i], attendance_fields) # 0 =>
                       BestField(anchors[i], attendance_fields)
                           # BestField(anchors[j], attendance_fields)
                /\ BestField(anchors[i], percentage_fields) # 0 =>
                       BestField(anchors[i], percentage_fields)
                           # BestField(anchors[j], percentage_fields)

\* The fields strictly nearer than 20 to the anchor, and the nearest of them.
Qualifying(anchor, fields) ==
    {j \in 1..Len(fields) : Abs(fields[j].y_center - anchor.y_center) < 20}
Nearest(anchor, fields) ==
    {j \in Qualifying(anchor, fields) :
        \A k \in Qualifying(anchor, fields) :
            Abs(fields[j].y_center - anchor.y_center)
                <= Abs(fields[k].y_center - anchor.y_center)}

\* C10: the Matcher returns one entry per anchor, in anchor order; the
\* present/total (the percentage) of an entry are those of an attendance
\* (percentage) field at the smallest y distance from the anchor among the
\* fields at distance < 20, and are unset when no field is that near.
C10_NearestYMatching ==
    pc = "dictionary" =>
        /\ Len(entries_matched) = Len(anchors)
        /\ \A i \in 1..Len(anchors) :
               LET a == anchors[i]
                   e == entries_matched[i]
               IN  /\ KeyOf(e) = KeyOf(a)
                   /\ e.y_center = a.y_center
                   /\ IF Qualifying(a, attendance_fields) = {}
                      THEN e.present = None /\ e.total = None
                      ELSE \E j \in Nearest(a, attendance_fields) :
                               /\ e.present = attendance_fields[j].present
                               /\ e.total = attendance_fields[j].total
                   /\ IF Qualifying(a, percentage_fields) = {}
                      THEN e.percentage = None
                      ELSE \E j \in Nearest(a, percentage_fields) :
                               e.percentage = percentage_fields[j].percentage

\* C10 witness: anchors at y 200 and 250 with attendance fields at y 205
\* (42/59) and y 252 (38/52) receive 42/59 and 38/52.
C10_Witness ==
    /\ pc = "dictionary"
    /\ Len(anchors) = 2 /\ anchors[1].y_center = 200 /\ anchors[2].y_center = 250
    /\ Len(attendance_fields) = 2
    /\ attendance_fields[1].y_center = 205 /\ attendance_fields[2].y_center = 252
    /\ entries_matched[1].present = 42 /\ entries_matched[1].total = 59
    /\ entries_matched[2].present = 38 /\ entries_matched[2].total = 52

\* Whether the text of a token matches the course code pattern.
MatchesCodePattern(tok) == CourseCodeSearch(Upper(tok.text)) # <<>>

\* Whether the text of a token contains LECT or LAB.
NamesClassType(tok) ==
    Contains(Upper(tok.text), T_LECT) \/ Contains(Upper(tok.text), T_LAB)

\* Whether another token of the list, within y_tolerance of token i, names a
\* class type.
HasClassTypeNear(toks, i) ==
    \E j \in 1..Len(toks) :
        /\ j # i
        /\ Abs(toks[j].y_center - toks[i].y_center) <= y_tolerance
        /\ NamesClassType(toks[j])

\* The left-region tokens that match the code pattern and have a class type near.
WithClassType ==
    {i \in 1..Len(left_tokens) :
        MatchesCodePattern(left_tokens[i]) /\ HasClassTypeNear(left_tokens, i)}

AnchorsDetected ==
    pc \in {"attendance", "percentage", "match", "dictionary", "inject", "validate",
            "except", "dedup", "final", "done"}

\* C11: a left-region token that matches the course code pattern and has no
\* other left-region token containing LECT or LAB within y_tolerance of its
\* y_center produces no anchor and no entry of the final output: every anchor
\* stands at a code token with a class type near, and there are no more
\* anchors, and no more final entries, than such tokens.
C11_AnchorRequiresClassType ==
    AnchorsDetected =>
        /\ \A a \in 1..Len(anchors) : \E i \in WithClassType :
               /\ left_tokens[i].x_center = anchors[a].x_center
               /\ left_tokens[i].y_center = anchors[a].y_center
        /\ Len(anchors) <= Cardinality(WithClassType)
        /\ Len(final) <= Cardinality(WithClassType)

\* A code token in the course code zone without a class type near, next to
\* one that became an anchor.
C11_Witness ==
    /\ pc = "done"
    /\ Len(anchors) = 1
    /\ \E i \in 1..Len(left_tokens) :
           /\ MatchesCodePattern(left_tokens[i])
           /\ InZone(GetXRatio(left_tokens[i].x_center, image_width), COURSE_CODE_ZONE)
           /\ ~HasClassTypeNear(left_tokens, i)
           /\ \E j \in 1..Len(left_tokens) : NamesClassType(left_tokens[j])

\* The zone the claim gives to the ratio x / width: CourseCode below 0.35,
\* ClassType from 0.35 to below 0.50, Attendance from 0.50 to below 0.75,
\* Percentage from 0.75 to below 1.
ZoneByClaim(x, width) ==
    IF 100 * x < 35 * width THEN "CourseCode"
    ELSE IF 100 * x < 50 * width THEN "ClassType"
    ELSE IF 100 * x < 75 * width THEN "Attendance"
    ELSE "Percentage"

\* C12: the four zones are half-open and partition [0, 1): every x ratio in
\* [0, 1) lies in exactly one zone, a ratio equal to a boundary in the zone on
\* its right; at image width 1000, x_center 100 is in CourseCode, 400 in
\* ClassType, 600 in Attendance and 900 in Percentage.
C12_ZoneContainment ==
    (pc = "done" /\ zone_x_center < image_width) =>
        /\ Cardinality(in_zones) = 1
        /\ in_zones = {ZoneByClaim(zone_x_center, image_width)}
        /\ image_width = 1000 =>
               /\ zone_x_center = 100 => in_zones = {"CourseCode"}
               /\ zone_x_center = 400 => in_zones = {"ClassType"}
               /\ zone_x_center = 600 => in_zones = {"Attendance"}
               /\ zone_x_center = 900 => in_zones = {"Percentage"}
               /\ zone_x_center = 350 => in_zones = {"ClassType"}
               /\ zone_x_center = 500 => in_zones = {"Attendance"}
               /\ zone_x_center = 750 => in_zones = {"Percentage"}

\* A ratio equal to a boundary, found in the zone on its right only.
C12_Witness ==
    /\ pc = "done"
    /\ image_width = 1000
    /\ zone_x_center = 350
    /\ in_zones = {"ClassType"}

\* C13: a call of the pipeline on an OCR result returns what the first call
\* on that OCR result returned, whatever calls, with the debug flag on or off,
\* the extractor served in between.
C13_SameInputSameOutput ==
    (pc = "done" /\ ocr_lines \in DOMAIN returned) =>
        final = returned[ocr_lines].result

\* A call in the other debug mode than the first call on the same OCR result,
\* after a call on another OCR result, returning a record.
C13_Witness ==
    /\ pc = "done"
    /\ ocr_lines \in DOMAIN returned
    /\ returned[ocr_lines].debug # debug_mode
    /\ Cardinality(DOMAIN returned) >= 2
    /\ final # <<>>

\* C14: when the OCR result holds no line, and when the anchor detector finds
\* no anchor, the very step that finds it out ends the call with the empty
\* list: no exception is raised and the matcher, the validator, the
\* deduplicator and the assembler do not run.
C14_EmptyInputReturnsEmpty ==
    [][ /\ (pc = "ocr" /\ ocr_lines = <<>>) => (pc' = "done" /\ final' = <<>>)
        /\ (pc = "anchors" /\ anchors' = <<>>) => (pc' = "done" /\ final' = <<>>)
        /\ (pc' = "except") => (tokens # <<>> /\ anchors # <<>>) ]_vars

\* A call that ended on tokens among which no anchor was found.
C14_Witness ==
    /\ pc = "done"
    /\ left_tokens # <<>>
    /\ anchors = <<>>
    /\ final = <<>>
    /\ entries_matched = <<>>

\* The rows of the right region, in ascending y order, that yield the code
\* with a name candidate.
RowsYielding(code) ==
    {k \in 1..Len(ClusterTokensByY(right_tokens)) :
        LET row == ClusterTokensByY(right_tokens)[k]
        IN  /\ ~IsHeaderRow(row)
            /\ RowCourseCode(row) = code
            /\ NameCandidates(row) # <<>>}

DictionaryBuilt == pc \in {"inject", "validate", "except", "dedup", "final", "done"}

\* C15: when two or more right-region rows, in ascending y order, yield the
\* same normalized course code with a name candidate, the dictionary maps the
\* code to the name of the first such row.
C15_DictionaryFirstWins ==
    DictionaryBuilt =>
        \A code \in DOMAIN course_dict :
            course_dict[code] =
                MaxByLen(NameCandidates(
                    ClusterTokensByY(right_tokens)[Min(RowsYielding(code))]))

NamesInjected == pc \in {"validate", "except", "dedup", "final", "done"}

\* C16: the name injector returns as many entries as it received, in the
\* same order; the course_name of each is the dictionary value of its
\* course_code when the code is a key of the dictionary and UNKNOWN otherwise,
\* and its other fields are unchanged.
C16_DictionaryMissKeepsRow ==
    NamesInjected =>
        /\ Len(entries_named) = Len(entries_matched)
        /\ \A i \in 1..Len(entries_matched) :
               /\ DOMAIN entries_named[i] = DOMAIN entries_matched[i] \cup {"course_name"}
               /\ \A f \in DOMAIN entries_matched[i] :
                      entries_named[i][f] = entries_matched[i][f]
               /\ entries_matched[i].course_code \in DOMAIN course_dict =>
                      entries_named[i].course_name =
                          course_dict[entries_matched[i].course_code]
               /\ entries_matched[i].course_code \notin DOMAIN course_dict =>
                      entries_named[i].course_name = UNKNOWN

\* Two entries after the injection, one named from the dictionary and one
\* whose code the dictionary does not hold.
C16_Witness ==
    /\ pc = "validate"
    /\ Len(entries_named) = 2
    /\ entries_named[1].course_name = UNKNOWN
    /\ entries_named[2].course_name # UNKNOWN
    /\ course_dict # <<>>

\* The ranges the claim names, on an entry handed to the assembler.
InRange(e) ==
    /\ e.present >= 0
    /\ e.total >= 0
    /\ e.percentage >= 0 /\ e.percentage <= 1000

\* The entries handed to the assembler that are within the ranges.
EmittedByClaim == {i \in 1..Len(entries_unique) : InRange(entries_unique[i])}

\* C17: every record the assembler emits has present >= 0, total >= 0,
\* 0 <= percentage <= 100 and confidence 0.95; an entry out of a range is
\* omitted and every other entry of the batch is emitted, with its values, in
\* the order of (course_code, class type).
C17_AssemblyIsolatesMalformed ==
    pc = "done" =>
        /\ \A k \in 1..Len(final) :
               /\ final[k].present >= 0
               /\ final[k].total >= 0
               /\ final[k].percentage >= 0 /\ final[k].percentage <= 1000
               /\ final[k].confidence = confidence_fixed
        /\ Len(final) = Cardinality(EmittedByClaim)
        /\ \A i \in EmittedByClaim : \E k \in 1..Len(final) :
               /\ KeyOf(final[k]) = KeyOf(entries_unique[i])
               /\ final[k].present = entries_unique[i].present
               /\ final[k].total = entries_unique[i].total
               /\ final[k].percentage = entries_unique[i].percentage
        /\ \A k \in 1..(Len(final) - 1) :
               \/ StrLess(final[k].course_code, final[k + 1].course_code)
               \/ /\ final[k].course_code = final[k + 1].course_code
                  /\ TypeOrder(final[k].class_type) <= TypeOrder(final[k + 1].class_type)

\* A batch of two whose entry with a percentage above 100 sorts first: it is
\* omitted and the entry after it is emitted.
C17_Witness ==
    /\ pc = "done"
    /\ Len(entries_unique) = 2
    /\ Len(final) = 1
    /\ final[1].course_code = T_MATH101
    /\ \E i \in 1..2 :
           /\ entries_unique[i].course_code = T_CSUC201
           /\ entries_unique[i].percentage > 1000

\* present / total * 100 rounded to one decimal, in tenths: the tenth
\* nearest to the quotient, the even one of two equally near.
RoundedByClaim(present, total) ==
    CHOOSE k \in 0..10000 :
        \/ 2 * Abs(1000 * present - k * total) < total
        \/ 2 * Abs(1000 * present - k * total) = total /\ k % 2 = 0

\* C18: for an entry with present and total set, the validator sets an unset
\* percentage to round(present / total * 100, 1) when total > 0 and to 0.0
\* when total = 0, and leaves a set percentage unchanged, even one more than
\* 3 points off present / total * 100.
C18_ValidatorPercentageRule ==
    pc = "dedup" =>
        \A i \in 1..Len(entries_named) :
            LET e == entries_named[i]
                v == entries_validated[i]
            IN  (e.present # None /\ e.total # None) =>
                    /\ (e.percentage = None /\ e.total > 0) =>
                           v.percentage = RoundedByClaim(e.present, e.total)
                    /\ (e.percentage = None /\ e.total = 0) => v.percentage = 0
                    /\ e.percentage # None => v.percentage = e.percentage

\* An entry whose percentage was computed as 71.2 from 42 of 59, and one whose
\* percentage 90.0 was kept against 38 of 52.
C18_Witness ==
    /\ pc = "dedup"
    /\ Len(entries_named) = 2
    /\ entries_named[1].percentage = None
    /\ entries_named[1].present = 42 /\ entries_named[1].total = 59
    /\ entries_validated[1].percentage = 712
    /\ entries_named[2].percentage = 900
    /\ entries_named[2].present = 38 /\ entries_named[2].total = 52
    /\ entries_validated[2].percentage = 900

\* The normalized course code pattern matches of a list of tokens.
SourceCodes(toks) ==
    {NormalizeCourseCode(CourseCodeSearch(Upper(toks[i].text))) :
        i \in {j \in 1..Len(toks) : MatchesCodePattern(toks[j])}}

\* An output of the normalization of a code found in the tokens that the
\* normalization maps to itself.
NormalizedKey(k, toks) ==
    /\ NormalizeCourseCode(k) = k
    /\ k \in SourceCodes(toks)

\* The lists of anchors and entries of a call, stage by stage.
EntryLists ==
    <<anchors, entries_matched, entries_named, entries_validated, entries_unique, final>>

\* C19: every course_code carried by an anchor or an entry, and every key of
\* the course dictionary, is an output of the normalization function and a
\* fixed point of it; a code found in a left-region token and in a right-region
\* row gives the anchor a course_code that is a key of the dictionary.
C19_KeysNormalized ==
    /\ \A n \in 1..Len(EntryLists) : \A i \in 1..Len(EntryLists[n]) :
           NormalizedKey(EntryLists[n][i].course_code, left_tokens)
    /\ \A k \in DOMAIN course_dict : NormalizedKey(k, right_tokens)
    /\ DictionaryBuilt =>
           \A a \in 1..Len(anchors) : \A i \in 1..Len(left_tokens) :
               \A j \in 1..Len(right_tokens) :
                   ( /\ left_tokens[i].x_center = anchors[a].x_center
                     /\ left_tokens[i].y_center = anchors[a].y_center
                     /\ MatchesCodePattern(left_tokens[i])
                     /\ CourseCodeSearch(Upper(left_tokens[i].text))
                            = CourseCodeSearch(Upper(right_tokens[j].text))
                     /\ RowsYielding(RowCourseCode(<<right_tokens[j]>>)) # {} )
                   => anchors[a].course_code \in DOMAIN course_dict

\* A record of the final output whose code CSUC201 was read from the token
\* csuc201/FSE and named from the dictionary row of CSUC201.
C19_Witness ==
    /\ pc = "done"
    /\ Len(final) = 1
    /\ final[1].course_code = T_CSUC201
    /\ final[1].course_name # UNKNOWN
    /\ \A i \in 1..Len(left_tokens) : left_tokens[i].text # T_CSUC201

SplitDone ==
    pc \in {"anchors", "attendance", "percentage", "match", "dictionary", "inject",
            "validate", "except", "dedup", "final", "done"}

\* The tokens left of image_width * 0.52.
LeftOfFixedSplit == {i \in 1..Len(tokens) : 100 * tokens[i].x_center < 52 * image_width}

\* The element at index floor(n/2), counted from 0, of the sorted x_centers:
\* the x_center with at most floor(n/2) x_centers below it and more than
\* floor(n/2) x_centers not above it.
MedianXCenter ==
    CHOOSE m \in {tokens[i].x_center : i \in 1..Len(tokens)} :
        /\ Cardinality({i \in 1..Len(tokens) : tokens[i].x_center < m})
               <= Len(tokens) \div 2
        /\ Cardinality({i \in 1..Len(tokens) : tokens[i].x_center <= m})
               > Len(tokens) \div 2

\* The split point of the claim, times 100.
SplitPointByClaim ==
    IF LeftOfFixedSplit = {} \/ LeftOfFixedSplit = 1..Len(tokens)
    THEN 100 * MedianXCenter
    ELSE 52 * image_width

IsLeftOfSplit(tok) == 100 * tok.x_center < SplitPointByClaim
IsRightOfSplit(tok) == ~IsLeftOfSplit(tok)

\* C20: left is exactly the tokens with x_center < image_width * 0.52 and
\* right exactly the other tokens, each in the order of the token list; when
\* one of the two would be empty, the split point is the median x_center of
\* all tokens instead, the element at index floor(n/2) of the sorted x_centers.
C20_RegionSplit ==
    (SplitDone /\ tokens # <<>>) =>
        /\ left_tokens = SelectSeq(tokens, IsLeftOfSplit)
        /\ right_tokens = SelectSeq(tokens, IsRightOfSplit)
        /\ Len(left_tokens) + Len(right_tokens) = Len(tokens)

\* Two tokens, both left of image_width * 0.52, split at their median.
C20_Witness ==
    /\ SplitDone
    /\ Len(tokens) = 2
    /\ LeftOfFixedSplit = {1, 2}
    /\ Len(left_tokens) = 1
    /\ Len(right_tokens) = 1

\* A token whose text, after the substitutions, matches digits/digits with
\* both numbers at most 100, and whose x ratio is in [0.50, 0.75).
QualifiesForAttendance(tok) ==
    LET m == AttendanceSearch(Replace(Replace(Replace(Upper(tok.text), "O", "0"),
                                              "L", "1"), "I", "1"))
    IN  /\ m # <<>>
        /\ ParseInt(m[1]) <= 100 /\ ParseInt(m[2]) <= 100
        /\ 50 * image_width <= 100 * tok.x_center
        /\ 100 * tok.x_center < 75 * image_width

\* A token whose text holds a percentage of at most 100, and whose x ratio is
\* in [0.75, 1.00).
QualifiesForPercentage(tok) ==
    /\ PercentageSearch(tok.text) # None
    /\ PercentageSearch(tok.text) <= 1000
    /\ 75 * image_width <= 100 * tok.x_center
    /\ 100 * tok.x_center < 100 * image_width

AttendanceDetected ==
    pc \in {"percentage", "match", "dictionary", "inject", "validate", "except",
            "dedup", "final"}
PercentageDetected ==
    pc \in {"match", "dictionary", "inject", "validate", "except", "dedup", "final"}

\* C21: every attendance field has present <= 100 and total <= 100 and every
\* percentage field a value <= 100; the attendance fields are, in token order,
\* one for each token that matches digits/digits after the substitutions in
\* the Attendance zone, the percentage fields one for each token with a
\* percentage in the Percentage zone, each at the position of its token, and
\* no other token yields a field; this holds without any anchor.
C21_FieldDetectorsBoundedAndZoned ==
    /\ AttendanceDetected =>
           LET q == SelectSeq(left_tokens, QualifiesForAttendance)
           IN  /\ Len(attendance_fields) = Len(q)
               /\ \A k \in 1..Len(q) :
                      /\ attendance_fields[k].x_center = q[k].x_center
                      /\ attendance_fields[k].y_center = q[k].y_center
                      /\ attendance_fields[k].present <= 100
                      /\ attendance_fields[k].total <= 100
    /\ PercentageDetected =>
           LET q == SelectSeq(left_tokens, QualifiesForPercentage)
           IN  /\ Len(percentage_fields) = Len(q)
               /\ \A k \in 1..Len(q) :
                      /\ percentage_fields[k].x_center = q[k].x_center
                      /\ percentage_fields[k].y_center = q[k].y_center
                      /\ percentage_fields[k].percentage = PercentageSearch(q[k].text)
                      /\ percentage_fields[k].percentage <= 1000

\* No anchor, one attendance field read as 40/11 from "4O / lI", and one
\* percentage field of 100 % on the boundary 0.75.
C21_Witness ==
    /\ pc = "match"
    /\ anchors = <<>>
    /\ Len(left_tokens) = 2
    /\ Len(attendance_fields) = 1
    /\ attendance_fields[1].present = 40 /\ attendance_fields[1].total = 11
    /\ Len(percentage_fields) = 1
    /\ percentage_fields[1].percentage = 1000
    /\ percentage_fields[1].x_center = 750

\* The left-region tokens at the position of an anchor that match the code
\* pattern.
CodeTokensOf(anchor) ==
    {i \in 1..Len(left_tokens) :
        /\ MatchesCodePattern(left_tokens[i])
        /\ left_tokens[i].x_center = anchor.x_center
        /\ left_tokens[i].y_center = anchor.y_center}

\* The other tokens within y_tolerance of token i that name a class type.
ClassTypeTokensNear(i) ==
    {j \in 1..Len(left_tokens) :
        /\ j # i
        /\ Abs(left_tokens[j].y_center - left_tokens[i].y_center) <= y_tolerance
        /\ NamesClassType(left_tokens[j])}

\* C22, as stated: if some left-region token within y_tolerance of the
\* course-code token contains LECT, the class_type of the anchor is LECT,
\* wherever that token stands in the list.
C22_LectPriorityAnyOrder ==
    AnchorsDetected =>
        \A a \in 1..Len(anchors) : \A i \in CodeTokensOf(anchors[a]) :
            (\E j \in ClassTypeTokensNear(i) : Contains(Upper(left_tokens[j].text), T_LECT))
                => anchors[a].class_type = T_LECT

\* C22, amended: the first token in list order, other than the course-code
\* token, that lies within y_tolerance of it and contains LECT or LAB decides
\* the class_type: LECT if its text contains LECT, also when the same text
\* contains LAB, and LAB otherwise, also when a later token within
\* y_tolerance contains LECT.
C22_FirstNearTokenDecides ==
    AnchorsDetected =>
        \A a \in 1..Len(anchors) : \A i \in CodeTokensOf(anchors[a]) :
            /\ ClassTypeTokensNear(i) # {}
            /\ LET first == CHOOSE j \in ClassTypeTokensNear(i) :
                                \A k \in ClassTypeTokensNear(i) : j <= k
               IN  anchors[a].class_type =
                       IF Contains(Upper(left_tokens[first].text), T_LECT)
                       THEN T_LECT ELSE T_LAB

\* An anchor LAB whose code token has a token with LAB and LECT within
\* y_tolerance, listed after a token with LAB only.
C22_Witness ==
    /\ pc = "attendance"
    /\ Len(anchors) = 1
    /\ anchors[1].class_type = T_LAB
    /\ \E i \in CodeTokensOf(anchors[1]) : \E j \in ClassTypeTokensNear(i) :
           /\ Contains(Upper(left_tokens[j].text), T_LECT)
           /\ Contains(Upper(left_tokens[j].text), T_LAB)

\* The left-region tokens that match the code pattern, have an x ratio in
\* [0, 0.35) and have another token naming a class type within y_tolerance.
QualifiesForAnchor ==
    {i \in 1..Len(left_tokens) :
        /\ MatchesCodePattern(left_tokens[i])
        /\ 0 <= left_tokens[i].x_center
        /\ 100 * left_tokens[i].x_center < 35 * image_width
        /\ ClassTypeTokensNear(i) # {}}

\* The k-th of those tokens in list order.
KthQualifying(k) ==
    CHOOSE i \in QualifiesForAnchor :
        Cardinality({j \in QualifiesForAnchor : j <= i}) = k

\* C23: the anchors are, in token order, one for each left-region token that
\* matches the code pattern in the CourseCode zone and has another token
\* with LECT or LAB within y_tolerance; each carries the x_center and
\* y_center of its token; tokens with the same key each give an anchor.
C23_AnchorEmission ==
    AnchorsDetected =>
        /\ Len(anchors) = Cardinality(QualifiesForAnchor)
        /\ \A k \in 1..Len(anchors) :
               /\ anchors[k].x_center = left_tokens[KthQualifying(k)].x_center
               /\ anchors[k].y_center = left_tokens[KthQualifying(k)].y_center

\* Two anchors with the same key from two tokens at different positions.
C23_Witness ==
    /\ AnchorsDetected
    /\ Len(anchors) = 2
    /\ anchors[1].course_code = anchors[2].course_code
    /\ anchors[1].class_type = anchors[2].class_type
    /\ anchors[1].x_center # anchors[2].x_center
    /\ Len(left_tokens) = 3

\* The rows of the right region.
RightRows == ClusterTokensByY(right_tokens)

\* Whether the texts of a row, upper-cased and joined by spaces, contain
\* COURSE CODE or COURSE NAME.
NamesHeader(row) ==
    \/ Contains(JoinUpper(row), T_COURSE_CODE)
    \/ Contains(JoinUpper(row), T_COURSE_NAME)

\* The upper-cased texts of the longest tokens of a row among those with
\* more than 8 characters.
LongestNames(row) ==
    {Upper(row[t].text) : t \in {t \in 1..Len(row) :
        /\ Len(row[t].text) > 8
        /\ \A u \in 1..Len(row) : Len(row[u].text) <= Len(row[t].text)}}

\* The rows that contribute a mapping: not a header, with a token that
\* matches the code pattern and a token of more than 8 characters.
ContributingRows ==
    {k \in 1..Len(RightRows) :
        /\ ~NamesHeader(RightRows[k])
        /\ \E t \in 1..Len(RightRows[k]) : MatchesCodePattern(RightRows[k][t])
        /\ LongestNames(RightRows[k]) # {}}

\* C24: every mapping of the dictionary is recorded from a row that is not a
\* header row and has a token matching the code pattern, with the longest
\* token text of more than 8 characters of that row, upper-cased, as the
\* name; every such row has its code in the dictionary; header rows and rows
\* without a token of more than 8 characters contribute nothing.
C24_DictionaryRowFilter ==
    DictionaryBuilt =>
        /\ \A code \in DOMAIN course_dict :
               \E k \in ContributingRows :
                   /\ RowCourseCode(RightRows[k]) = code
                   /\ course_dict[code] \in LongestNames(RightRows[k])
        /\ \A k \in ContributingRows : RowCourseCode(RightRows[k]) \in DOMAIN course_dict

\* A header row with a code and a name in it, which contributes nothing, and
\* a row that gives the one mapping.
C24_Witness ==
    /\ DictionaryBuilt
    /\ Len(RightRows) = 2
    /\ \E k \in 1..2 :
           /\ NamesHeader(RightRows[k])
           /\ \E t \in 1..Len(RightRows[k]) :
                  /\ MatchesCodePattern(RightRows[k][t])
                  /\ RowCourseCode(RightRows[k]) = T_MATH101
           /\ LongestNames(RightRows[k]) # {}
    /\ ContributingRows # {}
    /\ DOMAIN course_dict = {T_CSUC201}

\* The index of the token that created the row which token i joins: the
\* first earlier creator whose y_center is within 20 of that of token i, and
\* i itself when there is none.
RECURSIVE RowCreator(_, _)
RowCreator(toks, i) ==
    LET earlier == {c \in 1..(i - 1) :
                       /\ RowCreator(toks, c) = c
                       /\ Abs(toks[i].y_center - toks[c].y_center) <= 20}
    IN  IF earlier = {} THEN i ELSE CHOOSE c \in earlier : \A d \in earlier : c <= d

RowCreators(toks) == {c \in 1..Len(toks) : RowCreator(toks, c) = c}

\* How many tokens of a sequence equal a value.
CountIn(seq, v) == Cardinality({i \in 1..Len(seq) : seq[i] = v})

\* C25: the rows are one for each creator token, the tokens of a row are the
\* tokens that joined its creator (each token of the input in exactly one
\* row), the rows stand in ascending y of their creators, and the tokens of a
\* row in ascending x_center.
C25_RowClustering ==
    LET toks == right_tokens
        rows == ClusterTokensByY(toks)
    IN  /\ Len(rows) = Cardinality(RowCreators(toks))
        /\ \A k \in 1..Len(rows) :
               \E c \in RowCreators(toks) :
                   /\ Cardinality({d \in RowCreators(toks) :
                                       toks[d].y_center <= toks[c].y_center}) = k
                   /\ Len(rows[k]) = Cardinality({i \in 1..Len(toks) : RowCreator(toks, i) = c})
                   /\ \A i \in 1..Len(toks) :
                          CountIn(rows[k], toks[i]) =
                              Cardinality({j \in 1..Len(toks) :
                                  toks[j] = toks[i] /\ RowCreator(toks, j) = c})
                   /\ \A t \in 1..(Len(rows[k]) - 1) :
                          rows[k][t].x_center <= rows[k][t + 1].x_center
        /\ \A i \in 1..Len(toks) :
               Cardinality({k \in 1..Len(rows) : CountIn(rows[k], toks[i]) > 0}) = 1

\* The dictionary was built from three tokens of which the last is within
\* 20 of both earlier ones and joined the first, which is the lower row.
C25_Witness ==
    /\ pc = "inject"
    /\ Len(right_tokens) = 3
    /\ RowCreators(right_tokens) = {1, 2}
    /\ right_tokens[1].y_center > right_tokens[2].y_center
    /\ Abs(right_tokens[3].y_center - right_tokens[2].y_center) <= 20
    /\ RowCreator(right_tokens, 3) = 1
    /\ Len(ClusterTokensByY(right_tokens)[2]) = 2

\* C26: for a list of entries whose present and total are set, the validator
\* returns as many entries, in the same order, each equal to its input entry
\* in every field but percentage; an entry with present > total and total > 0
\* is among them with present and total unchanged.
C26_ValidatorKeepsRows ==
    (pc = "dedup" /\ \A i \in 1..Len(entries_named) :
                        entries_named[i].present # None /\ entries_named[i].total # None) =>
        /\ Len(entries_validated) = Len(entries_named)
        /\ \A i \in 1..Len(entries_named) :
               /\ DOMAIN entries_validated[i] = DOMAIN entries_named[i]
               /\ \A f \in DOMAIN entries_named[i] \ {"percentage"} :
                      entries_validated[i][f] = entries_named[i][f]

\* Two entries validated, the first with 60 present of 59 and the second
\* with 42 of 59 and another class type.
C26_Witness ==
    /\ pc = "dedup"
    /\ Len(entries_named) = 2
    /\ entries_named[1].present = 60 /\ entries_named[1].total = 59
    /\ entries_named[2].present = 42 /\ entries_named[2].class_type # entries_named[1].class_type
    /\ Len(entries_validated) = 2
    /\ entries_validated[1].present = 60 /\ entries_validated[1].total = 59
    /\ entries_validated[2].present = 42

\* Whether a string is 3 to 4 uppercase letters followed by exactly 3 digits.
HasCodeFormat(code) ==
    /\ Len(code) \in {6, 7}
    /\ \A i \in 1..(Len(code) - 3) : code[i] \in UpperChars
    /\ \A i \in (Len(code) - 2)..Len(code) : code[i] \in DigitChars

\* C27: for every non-empty raw code the normalization returns 3 to 4
\* uppercase letters followed by exactly 3 digits.
C27_NormalizedFormat ==
    (pc = "done" /\ raw_code # <<>>) => HasCodeFormat(normalized)

\* The string that the course code pattern extracts from a token.
ExtractedCode(tok) == CourseCodeSearch(Upper(tok.text))

\* C28: the course_code of every anchor is the string that the pattern
\* extracted from its token, unchanged by the normalization, and every key of
\* the dictionary is the string that the pattern extracted from a
\* right-region token; a token without a match gives no anchor and no key.
C28_NormalizeIdentityOnDetected ==
    /\ AnchorsDetected =>
           /\ Len(anchors) = Cardinality(QualifiesForAnchor)
           /\ \A k \in 1..Len(anchors) :
                  anchors[k].course_code = ExtractedCode(left_tokens[KthQualifying(k)])
    /\ DictionaryBuilt =>
           \A code \in DOMAIN course_dict :
               \E t \in 1..Len(right_tokens) :
                   /\ MatchesCodePattern(right_tokens[t])
                   /\ ExtractedCode(right_tokens[t]) = code

FieldsMatched == pc \in {"dictionary", "inject", "validate", "except", "dedup", "final", "done"}

\* C29: in a run of the pipeline the left region never holds both a token
\* with x ratio < 0.35 and a token with x ratio >= 0.75; no entry gets a
\* percentage from a percentage field; every record of the output has the
\* percentage round(present / total * 100, 1) when total > 0 and 0.0 when
\* total = 0.
C29_PercentageAlwaysComputed ==
    /\ SplitDone =>
           ~(/\ \E i \in 1..Len(left_tokens) :
                    100 * left_tokens[i].x_center < 35 * image_width
             /\ \E i \in 1..Len(left_tokens) :
                    100 * left_tokens[i].x_center >= 75 * image_width)
    /\ FieldsMatched =>
           \A i \in 1..Len(entries_matched) : entries_matched[i].percentage = None
    /\ pc = "done" =>
           \A i \in 1..Len(final) :
               final[i].percentage =
                   IF final[i].total > 0
                   THEN RoundedByClaim(final[i].present, final[i].total)
                   ELSE 0

\* A run whose OCR result holds a percentage text in the Percentage zone and
\* whose output is one record with a percentage.
C29_Witness ==
    /\ pc = "done"
    /\ Len(final) = 1
    /\ final[1].percentage = 731
    /\ \E i \in 1..Len(tokens) :
           /\ PercentageSearch(tokens[i].text) = 712
           /\ 100 * tokens[i].x_center >= 75 * image_width

EntriesValidated == pc \in {"dedup", "final", "done"}

====
